---- MODULE Spec2Model ----
(***************************************************************************)
(* Verification model of the UIDAI enrolment analytics pipeline            *)
(* (data_pipeline.py): load_and_prepare, the three aggregates, the         *)
(* indicator helpers, generate_insights and generate_recommendations.     *)
(*                                                                         *)
(* Conventions                                                             *)
(*  - A CSV cell is a string; "" is the empty cell pandas reads as NaN.    *)
(*  - A date is the number of months since January 2024; NaT is -1.        *)
(*  - A float that may be NaN is a record [nan, v]; a quotient is a record *)
(*    [k, n, d] with k in {"nan", "inf", "-inf", "num"} and value n/d,     *)
(*    d > 0. Arithmetic is exact: counts are integers, far below 2^53.     *)
(*    Where the rounding of a division matters, _seasonality_index is      *)
(*    computed in float64 bit for bit (Float64SeasonalityIndex).           *)
(***************************************************************************)
EXTENDS Integers, Sequences, FiniteSets, TLC

VARIABLES
    pc,               \* position of the invocation
    raw,              \* the rows of the CSV file, in file order
    state_filter,     \* the state_filter argument of load_and_prepare
    df,               \* data['df']: the cleaned rows
    monthly,          \* data['monthly']
    district_monthly, \* data['district_monthly']
    pincode_monthly,  \* data['pincode_monthly']
    seasonal,         \* result of _seasonality_index
    flags,            \* result of _district_saturation_flags
    child,            \* result of _child_momentum
    insights,         \* the numbers generate_insights formats
    prev,             \* outputs of the previous invocation on the same input
    recs              \* the values generate_recommendations formats

vars == <<pc, raw, state_filter, df, monthly, district_monthly, pincode_monthly,
          seasonal, flags, child, insights, prev, recs>>

-----------------------------------------------------------------------------
(* Generic helpers                                                         *)

SeqsUpTo(S, n) == UNION {[1..k -> S] : k \in 0..n}

Range(s) == {s[i] : i \in DOMAIN s}

RECURSIVE SumSeq(_)
SumSeq(s) == IF s = <<>> THEN 0 ELSE s[1] + SumSeq(Tail(s))

RECURSIVE SetToSeq(_)
SetToSeq(S) ==
    IF S = {} THEN <<>>
    ELSE LET x == CHOOSE y \in S : TRUE IN <<x>> \o SetToSeq(S \ {x})

Max2(a, b) == IF a >= b THEN a ELSE b

\* .tail(3) of the month-over-month changes in generate_insights
RecentPoints == 3

-----------------------------------------------------------------------------
(* Text cells: strip, lower, comparison, parsing                           *)

\* str.strip() on the strings of the model
Strip(s) ==
    CASE s = " maharashtra " -> "maharashtra"
      [] s = " Maharashtra"  -> "Maharashtra"
      [] s = " Nagpur "      -> "Nagpur"
      [] s = " "             -> ""
      [] OTHER               -> s

\* str.lower() on the strings of the model
Lower(s) ==
    CASE s = "Maharashtra"  -> "maharashtra"
      [] s = " Maharashtra" -> " maharashtra"
      [] s = "Goa"          -> "goa"
      [] OTHER              -> s

\* the strings that occur as grouping keys, in Python's string order
StringOrder == <<"", "411001", "411001.0", "411002", "411002.0", "4110AB",
                 "Nagpur", "Nashik", "Pune", "Thane">>

StrRank(s) == CHOOSE i \in 1..Len(StringOrder) : StringOrder[i] = s

StrLess(a, b) == StrRank(a) < StrRank(b)

NaT == 0 - 1

\* pd.to_datetime(dayfirst=True, format='mixed', errors='coerce') on one cell
ToDatetime(c) ==
    CASE c = "01-01-2024" -> 0
      [] c = "01-02-2024" -> 1
      [] c = "01-03-2024" -> 2
      [] c = "01-01-2025" -> 12
      [] OTHER            -> NaT

\* Timestamp.month of a date
MonthOfYear(d) == (d % 12) + 1

NaN == [nan |-> TRUE, v |-> 0]

Num(x) == [nan |-> FALSE, v |-> x]

\* pd.to_numeric(errors='coerce') on one cell
ToNumeric(c) ==
    CASE c = "-1" -> Num(0 - 1)
      [] c = "0"  -> Num(0)
      [] c = "1"  -> Num(1)
      [] c = "2"  -> Num(2)
      [] c = "3"  -> Num(3)
      [] OTHER    -> NaN

\* the dtype read_csv infers for the pincode column from all its cells
IsIntText(c) == c \in {"411001", "411002"}

PincodeDtype(rows) ==
    IF \E i \in DOMAIN rows : rows[i].pincode # "" /\ ~IsIntText(rows[i].pincode)
    THEN "object"
    ELSE IF \E i \in DOMAIN rows : rows[i].pincode = "" THEN "float64"
    ELSE "int64"

\* astype(str) of one pincode value of a column of the given dtype
PincodeStr(c, dtype) ==
    IF dtype = "float64"
    THEN CASE c = "411001" -> "411001.0"
           [] c = "411002" -> "411002.0"
           [] OTHER        -> c
    ELSE c

\* .str raises AttributeError on a column that holds no string at all
StateColumnIsText(rows) ==
    rows = <<>> \/ \E i \in DOMAIN rows : rows[i].state # ""

-----------------------------------------------------------------------------
(* load_and_prepare: cleaning                                              *)

\* df['state'].str.strip().str.lower() == state_filter.lower(); NaN never matches
StateMatches(r, filter) ==
    r.state # "" /\ Lower(Strip(r.state)) = Lower(filter)

\* the three age columns after pd.to_numeric, and their row sum (NaN skipped)
RowTotal(a, b, c) ==
    (IF a.nan THEN 0 ELSE a.v) + (IF b.nan THEN 0 ELSE b.v)
        + (IF c.nan THEN 0 ELSE c.v)

\* a wrong dropna: rows with a missing age value dropped as well
HasAllFields(r) ==
    /\ ToDatetime(r.date) # NaT /\ r.district # "" /\ r.pincode # ""
    /\ ~ToNumeric(r.age_0_5).nan /\ ~ToNumeric(r.age_5_17).nan
    /\ ~ToNumeric(r.age_18_greater).nan

\* dropna(subset=['date', 'district', 'pincode'])
HasKeyFields(r) ==
    ToDatetime(r.date) # NaT /\ r.district # "" /\ r.pincode # ""

\* one retained row, with its parsed, coerced and stringified fields
CleanRow(r, dtype) ==
    [date             |-> ToDatetime(r.date),
     district         |-> Strip(r.district),
     pincode          |-> Strip(PincodeStr(r.pincode, dtype)),
     age_0_5          |-> ToNumeric(r.age_0_5),
     age_5_17         |-> ToNumeric(r.age_5_17),
     age_18_greater   |-> ToNumeric(r.age_18_greater),
     total_enrolments |-> RowTotal(ToNumeric(r.age_0_5), ToNumeric(r.age_5_17),
                                   ToNumeric(r.age_18_greater))]

\* data['df'] for the rows of a file on which load_and_prepare does not raise
CleanRows(rows, filter) ==
    LET kept == SelectSeq(rows, LAMBDA r : StateMatches(r, filter) /\ HasKeyFields(r))
    IN [i \in DOMAIN kept |-> CleanRow(kept[i], PincodeDtype(rows))]

-----------------------------------------------------------------------------
(* Float quotients, exact                                                  *)

QNaN == [k |-> "nan", n |-> 0, d |-> 1]

QInf == [k |-> "inf", n |-> 0, d |-> 1]

QNegInf == [k |-> "-inf", n |-> 0, d |-> 1]

\* the float n / d of two integers: nan for 0/0, +-inf for x/0
Div(n, d) ==
    IF d = 0 THEN (IF n = 0 THEN QNaN ELSE IF n > 0 THEN QInf ELSE QNegInf)
    ELSE IF d > 0 THEN [k |-> "num", n |-> n, d |-> d]
    ELSE [k |-> "num", n |-> 0 - n, d |-> 0 - d]

\* the quotient a / b of two finite quotients
QDiv(a, b) == Div(a.n * b.d, a.d * b.n)

QAdd(a, b) == [k |-> "num", n |-> a.n * b.d + b.n * a.d, d |-> a.d * b.d]

RECURSIVE QSum(_)
QSum(qs) == IF qs = <<>> THEN Div(0, 1) ELSE QAdd(qs[1], QSum(Tail(qs)))

QEq(a, b) == a.k = "num" /\ b.k = "num" /\ a.n * b.d = b.n * a.d

QLess(a, b) == a.k = "num" /\ b.k = "num" /\ a.n * b.d < b.n * a.d

\* Series.mean() of integers; NaN for an empty series
Mean(xs) == Div(SumSeq(xs), Len(xs))

\* Series.mean() of floats: NaN skipped, infinities absorbing
QMeanSkipNa(qs) ==
    LET vals == SelectSeq(qs, LAMBDA q : q.k # "nan")
        pos  == \E i \in DOMAIN vals : vals[i].k = "inf"
        neg  == \E i \in DOMAIN vals : vals[i].k = "-inf"
        s    == QSum(vals)
    IN IF vals = <<>> \/ (pos /\ neg) THEN QNaN
       ELSE IF pos THEN QInf
       ELSE IF neg THEN QNegInf
       ELSE Div(s.n, s.d * Len(vals))

-----------------------------------------------------------------------------
(* The orders the pipeline sorts and groups by                             *)

\* the order of the (entity, date) group keys
KeyLess(a, b) ==
    StrLess(a[1], b[1]) \/ (a[1] = b[1] /\ a[2] < b[2])

\* the order of sort_values('saturation_index'): ascending, NaN last
SatLess(a, b) ==
    \/ a.k = "-inf" /\ b.k \in {"num", "inf", "nan"}
    \/ a.k = "num" /\ b.k \in {"inf", "nan"}
    \/ a.k = "inf" /\ b.k = "nan"
    \/ QLess(a, b)

\* the strict order named by a sort or group column
Less(by, a, b) ==
    CASE by = "date"             -> a < b
      [] by = "district"         -> StrLess(a, b)
      [] by = "key"              -> KeyLess(a, b)
      [] by = "district, date"   -> KeyLess(<<a.entity, a.date>>, <<b.entity, b.date>>)
      [] by = "std12"            -> QLess(a, b)
      [] by = "saturation_index" -> SatLess(a.saturation_index, b.saturation_index)
      [] by = "total, descending" -> a.total > b.total
      [] by = "seasonal_index, descending" -> QLess(b.seasonal_index, a.seasonal_index)

\* s sorted ascending by that order, stably (insertion sort)
SortSeqBy(s, by) ==
    LET Insert(sorted, x) ==
            LET k == Cardinality({j \in DOMAIN sorted : ~Less(by, x, sorted[j])})
            IN SubSeq(sorted, 1, k) \o <<x>> \o SubSeq(sorted, k + 1, Len(sorted))
        F[i \in 0..Len(s)] == IF i = 0 THEN <<>> ELSE Insert(F[i - 1], s[i])
    IN F[Len(s)]

\* the elements of the finite set S in ascending order
SortSet(S, by) == SortSeqBy(SetToSeq(S), by)

-----------------------------------------------------------------------------
(* load_and_prepare: the three aggregates                                  *)

\* a wrong aggregation: the last value of the group instead of its sum
AggLast(vals) ==
    IF vals = <<>> \/ vals[Len(vals)].nan THEN 0 ELSE vals[Len(vals)].v

\* groupby(...).agg('sum') of one column of one group: NaN skipped, rows in order
AggSum(vals) == SumSeq([i \in DOMAIN vals |-> IF vals[i].nan THEN 0 ELSE vals[i].v])

\* a wrong source column for the state total
StateTotalFromAge05(r) == r.age_0_5

\* total=('total_enrolments', 'sum'): the column the state total sums
StateTotalColumn(r) == Num(r.total_enrolments)

\* monthly: groupby('date'), sorted by date, with the month-of-year attached
MonthlyOf(rows) ==
    LET dates == SortSet({rows[i].date : i \in DOMAIN rows}, "date")
        Group(d) == SelectSeq(rows, LAMBDA r : r.date = d)
    IN [i \in DOMAIN dates |->
           LET g == Group(dates[i])
           IN [date           |-> dates[i],
               age_0_5        |-> AggSum([j \in DOMAIN g |-> g[j].age_0_5]),
               age_5_17       |-> AggSum([j \in DOMAIN g |-> g[j].age_5_17]),
               age_18_greater |-> AggSum([j \in DOMAIN g |-> g[j].age_18_greater]),
               total          |-> AggSum([j \in DOMAIN g |-> StateTotalColumn(g[j])]),
               month          |-> MonthOfYear(dates[i])]]

\* a wrong grouping column: the district for both entity-level aggregates
EntityOfDistrictOnly(r, column) == r.district

\* the grouping column of an entity-level aggregate
EntityOf(r, column) == IF column = "district" THEN r.district ELSE r.pincode

\* groupby([column, 'date']).agg(total=sum).reset_index(): sorted by (entity, date)
EntityMonthlyOf(rows, column) ==
    LET keys == SortSet({<<EntityOf(rows[i], column), rows[i].date>> : i \in DOMAIN rows},
                        "key")
        Group(k) == SelectSeq(rows, LAMBDA r : EntityOf(r, column) = k[1] /\ r.date = k[2])
    IN [i \in DOMAIN keys |->
           LET g == Group(keys[i])
           IN [entity |-> keys[i][1],
               date   |-> keys[i][2],
               total  |-> AggSum([j \in DOMAIN g |-> Num(g[j].total_enrolments)])]]

DistrictMonthlyOf(rows) == EntityMonthlyOf(rows, "district")

PincodeMonthlyOf(rows) == EntityMonthlyOf(rows, "pincode")

-----------------------------------------------------------------------------
(* _seasonality_index                                                     *)

\* a wrong overall average: the sum, not divided by the number of entries
OverallSum(m) == Div(SumSeq([i \in DOMAIN m |-> m[i].total]), 1)

\* overall_avg = monthly['total'].mean() if len(monthly) else 0
OverallAvg(m) ==
    IF Len(m) > 0 THEN Mean([i \in DOMAIN m |-> m[i].total]) ELSE Div(0, 1)

\* a wrong index: the ratio taken whatever the overall average
SeasonalityIndexUnguarded(m) ==
    LET overall_avg == OverallAvg(m)
        months      == SortSet({m[i].month : i \in DOMAIN m}, "date")
        MonthMean(mo) ==
            LET g == SelectSeq(m, LAMBDA e : e.month = mo)
            IN Mean([i \in DOMAIN g |-> g[i].total])
    IN [i \in DOMAIN months |->
           [month          |-> months[i],
            seasonal_index |-> QDiv(MonthMean(months[i]), overall_avg)]]

SeasonalityIndex(m) ==
    LET overall_avg == OverallAvg(m)
        months      == SortSet({m[i].month : i \in DOMAIN m}, "date")
        MonthMean(mo) ==
            LET g == SelectSeq(m, LAMBDA e : e.month = mo)
            IN Mean([i \in DOMAIN g |-> g[i].total])
    IN [i \in DOMAIN months |->
           [month          |-> months[i],
            seasonal_index |-> IF overall_avg.n # 0
                               THEN QDiv(MonthMean(months[i]), overall_avg)
                               ELSE MonthMean(months[i])]]

-----------------------------------------------------------------------------
(* float64: the values and the division of _seasonality_index, bit for bit  *)

\* non-negative integers of up to 84 bits: three limbs <<high, middle, low>>
Limb == 268435456

BigOf(n) == <<0, 0, n>>

Carry(h, m, l) ==
    LET m1 == m + (l \div Limb)
    IN <<h + (m1 \div Limb), m1 % Limb, l % Limb>>

BigAdd(x, y) == Carry(x[1] + y[1], x[2] + y[2], x[3] + y[3])

\* x * c for a factor c below 8
BigTimes(x, c) == Carry(x[1] * c, x[2] * c, x[3] * c)

BigLess(x, y) ==
    \/ x[1] < y[1]
    \/ x[1] = y[1] /\ x[2] < y[2]
    \/ x[1] = y[1] /\ x[2] = y[2] /\ x[3] < y[3]

\* x - y for x >= y
BigSub(x, y) ==
    LET l  == x[3] - y[3]
        bl == IF l < 0 THEN 1 ELSE 0
        m  == x[2] - y[2] - bl
        bm == IF m < 0 THEN 1 ELSE 0
    IN <<x[1] - y[1] - bm, m + bm * Limb, l + bl * Limb>>

RECURSIVE BigShr(_, _)
\* floor(x / 2^k)
BigShr(x, k) ==
    IF k >= 28 THEN BigShr(<<0, x[1], x[2]>>, k - 28)
    ELSE LET p == 2 ^ k
             q == 2 ^ (28 - k)
         IN <<x[1] \div p, (x[2] \div p) + (x[1] % p) * q, (x[3] \div p) + (x[2] % p) * q>>

RECURSIVE BigShl(_, _)
\* x * 2^k, for a product below 2^84
BigShl(x, k) ==
    IF k >= 28 THEN BigShl(<<x[2], x[3], 0>>, k - 28)
    ELSE LET p == 2 ^ k
             q == 2 ^ (28 - k)
         IN <<(x[1] % q) * p + (x[2] \div q), (x[2] % q) * p + (x[3] \div q), (x[3] % q) * p>>

RECURSIVE BitLenInt(_)
BitLenInt(n) == IF n = 0 THEN 0 ELSE 1 + BitLenInt(n \div 2)

\* the number of bits of x
BitLen(x) ==
    IF x[1] > 0 THEN 56 + BitLenInt(x[1])
    ELSE IF x[2] > 0 THEN 28 + BitLenInt(x[2])
    ELSE BitLenInt(x[3])

\* the significand of a float64
MantissaBits == 53

\* a non-negative float64 is m * 2^e with m = 0 or 2^52 <= m < 2^53
Float64Zero == [m |-> BigOf(0), e |-> 0]

\* the float64 nearest to x * 2^e, ties to even (x of at most 28 bits too many)
RoundToFloat64(x, e) ==
    LET n == BitLen(x)
    IN IF n = 0 THEN Float64Zero
       ELSE IF n <= MantissaBits
       THEN [m |-> BigShl(x, MantissaBits - n), e |-> e - (MantissaBits - n)]
       ELSE LET k    == n - MantissaBits
                q    == BigShr(x, k)
                r    == x[3] % (2 ^ k)
                half == 2 ^ (k - 1)
                up   == r > half \/ (r = half /\ q[3] % 2 = 1)
                q1   == IF up THEN BigAdd(q, BigOf(1)) ELSE q
            IN IF BitLen(q1) > MantissaBits
               THEN [m |-> BigShr(q1, 1), e |-> e + k + 1]
               ELSE [m |-> q1, e |-> e + k]

\* the float64 of an integer 0 <= n < 2^28
Float64OfInt(n) == RoundToFloat64(BigOf(n), 0)

RECURSIVE LongDivide(_, _, _, _)
\* i more quotient bits of r / b for r < 2 * b: <<quotient, twice the remainder>>
LongDivide(r, b, q, i) ==
    IF i = 0 \/ q[3] < 0 THEN <<q, r>>
    ELSE IF BigLess(r, b)
    THEN LongDivide(BigTimes(r, 2), b, BigTimes(q, 2), i - 1)
    ELSE LongDivide(BigTimes(BigSub(r, b), 2), b, BigAdd(BigTimes(q, 2), BigOf(1)), i - 1)

\* the float64 x / y for y > 0: 55 quotient bits and a sticky bit, then rounded
Float64Div(x, y) ==
    IF x.m = BigOf(0) THEN Float64Zero
    ELSE LET small  == BigLess(x.m, y.m)
             qr     == LongDivide(IF small THEN BigTimes(x.m, 2) ELSE x.m, y.m,
                                  BigOf(0), MantissaBits + 2)
             sticky == IF qr[2] = BigOf(0) THEN 0 ELSE 1
         IN RoundToFloat64(BigAdd(BigTimes(qr[1], 2), BigOf(sticky)),
                           x.e - y.e - (IF small THEN 1 ELSE 0) - (MantissaBits + 2))

\* Series.mean() of non-negative integers in float64: the exact sum over the count
Float64Mean(xs) == Float64Div(Float64OfInt(SumSeq(xs)), Float64OfInt(Len(xs)))

\* a wrong overall average: the sum over the number of distinct months-of-year
Float64OverallAvgPerMonth(m) ==
    IF Len(m) > 0
    THEN Float64Div(Float64OfInt(SumSeq([i \in DOMAIN m |-> m[i].total])),
                    Float64OfInt(Cardinality({m[i].month : i \in DOMAIN m})))
    ELSE Float64Zero

\* overall_avg = monthly['total'].mean() if len(monthly) else 0
Float64OverallAvg(m) ==
    IF Len(m) > 0 THEN Float64Mean([i \in DOMAIN m |-> m[i].total]) ELSE Float64Zero

\* _seasonality_index on a state series of non-negative totals, in float64
Float64SeasonalityIndex(m) ==
    LET overall_avg == Float64OverallAvg(m)
        months      == SortSet({m[i].month : i \in DOMAIN m}, "date")
        MonthMean(mo) ==
            LET g == SelectSeq(m, LAMBDA e : e.month = mo)
            IN Float64Mean([i \in DOMAIN g |-> g[i].total])
    IN [i \in DOMAIN months |->
           [month          |-> months[i],
            seasonal_index |-> IF overall_avg # Float64Zero
                               THEN Float64Div(MonthMean(months[i]), overall_avg)
                               ELSE MonthMean(months[i])]]

-----------------------------------------------------------------------------
(* _child_momentum                                                         *)

\* a wrong child total: the adults counted as well
ChildTotalAllAges(e) == e.age_0_5 + e.age_5_17 + e.age_18_greater + e.age_18_greater

\* m['child_total'] = m['age_0_5'] + m['age_5_17']
ChildTotal(e) == e.age_0_5 + e.age_5_17

\* .replace([np.inf, -np.inf], np.nan)
ReplaceInf(q) == IF q.k \in {"inf", "-inf"} THEN QNaN ELSE q

ChildMomentumOf(m) ==
    [i \in DOMAIN m |->
        [date        |-> m[i].date,
         child_total |-> ChildTotal(m[i]),
         child_share |-> ReplaceInf(Div(ChildTotal(m[i]), m[i].total))]]

-----------------------------------------------------------------------------
(* generate_insights: the numbers of the total_trend and child insights     *)

\* a wrong change: relative to the first value, not to the previous one
PctChangeFromFirst(xs) ==
    [i \in DOMAIN xs |->
        IF i = 1 THEN QNaN
        ELSE LET q == Div(xs[i], xs[1])
             IN IF q.k = "num" THEN Div(q.n - q.d, q.d) ELSE q]

\* Series.pct_change(): NaN first, then x[i] / x[i-1] - 1
PctChange(xs) ==
    [i \in DOMAIN xs |->
        IF i = 1 THEN QNaN
        ELSE LET q == Div(xs[i], xs[i - 1])
             IN IF q.k = "num" THEN Div(q.n - q.d, q.d) ELSE q]

\* Series.tail(n)
TailN(s, n) == IF Len(s) <= n THEN s ELSE SubSeq(s, Len(s) - n + 1, Len(s))

\* monthly['total'].pct_change().tail(3)
RecentChanges(totals) == TailN(PctChange(totals), RecentPoints)

TotalTrendOf(m) ==
    LET totals == [i \in DOMAIN m |-> m[i].total]
    IN IF Len(m) > 0
       THEN [computed      |-> TRUE,
             total_change  |-> Div(totals[Len(m)] - totals[1], Max2(totals[1], 1)),
             recent_growth |-> QMeanSkipNa(RecentChanges(totals))]
       ELSE [computed |-> FALSE, total_change |-> QNaN, recent_growth |-> QNaN]

\* Series.head(n)
HeadN(s, n) == IF Len(s) <= n THEN s ELSE SubSeq(s, 1, n)

\* top/bottom N of the district ranking
TopBottomN == 3

\* groupby('district')['total'].sum().sort_values(ascending=False): groups in key
\* order, then a stable descending sort
DistTotals(rows) ==
    LET dists == SortSet({rows[i].entity : i \in DOMAIN rows}, "district")
        Sum(d) == LET g == SelectSeq(rows, LAMBDA e : e.entity = d)
                  IN SumSeq([j \in DOMAIN g |-> g[j].total])
    IN SortSeqBy([i \in DOMAIN dists |-> [district |-> dists[i], total |-> Sum(dists[i])]],
                 "total, descending")

\* child['child_share'].tail(1).values[0], when the child series has a row
ChildInsightOf(ch) ==
    IF Len(ch) > 0
    THEN [child_computed |-> TRUE, last_share |-> ch[Len(ch)].child_share]
    ELSE [child_computed |-> FALSE, last_share |-> QNaN]

\* the numbers generate_insights formats into the total_trend and child_momentum
\* findings; computed is FALSE where the insufficient-data text is emitted instead
InsightsOf(m, dm) ==
    LET trend == TotalTrendOf(m)
        ci    == ChildInsightOf(ChildMomentumOf(m))
        dist_totals == DistTotals(dm)
    IN [computed       |-> trend.computed,
        total_change   |-> trend.total_change,
        recent_growth  |-> trend.recent_growth,
        top_d          |-> HeadN(dist_totals, TopBottomN),
        bottom_d       |-> TailN(dist_totals, TopBottomN),
        child_computed |-> ci.child_computed,
        last_share     |-> ci.last_share]

-----------------------------------------------------------------------------
(* _district_saturation_flags                                              *)

\* rolling(12, ...) and rolling(3, ...)
Window12 == 12

Window3 == 3

\* min_periods of rolling12_max, of rolling3_avg, and of rolling12_avg and std12
MinPeriodsMax == 3

MinPeriodsAvg3 == 3

MinPeriods12 == 6

RECURSIVE Gcd(_, _)
Gcd(a, b) == IF b = 0 THEN a ELSE Gcd(b, a % b)

Lcm(a, b) == (a \div Gcd(a, b)) * b

RECURSIVE ISqrtIn(_, _, _)
\* the largest s in lo..hi with s * s <= n
ISqrtIn(n, lo, hi) ==
    IF lo >= hi THEN lo
    ELSE LET mid == (lo + hi + 1) \div 2
         IN IF mid * mid <= n THEN ISqrtIn(n, mid, hi) ELSE ISqrtIn(n, lo, mid - 1)

ISqrt(n) == ISqrtIn(n, 0, IF n < 46340 THEN n ELSE 46340)

\* dm.sort_values(['district', 'date'])
SortByDistrictDate(dm) == SortSeqBy(dm, "district, date")

\* the totals of one district of a sorted table, in date order
SeriesOf(sorted, dist) ==
    LET g == SelectSeq(sorted, LAMBDA e : e.entity = dist)
    IN [i \in DOMAIN g |-> g[i].total] \o <<>>

\* the trailing window of at most w points that ends at point i
Window(s, i, w) == SubSeq(s, Max2(1, i - w + 1), i)

SeqMax(xs) == CHOOSE x \in Range(xs) : \A y \in Range(xs) : y <= x

\* s.rolling(w, min_periods=p).max() at point i
RollingMax(s, i, w, p) ==
    LET win == Window(s, i, w)
    IN IF Len(win) < p THEN QNaN ELSE Div(SeqMax(win), 1)

\* s.rolling(w, min_periods=p).mean() at point i
RollingMean(s, i, w, p) ==
    LET win == Window(s, i, w)
    IN IF Len(win) < p THEN QNaN ELSE Div(SumSeq(win), Len(win))

\* the square of s.rolling(w, min_periods=p).std() at point i (ddof = 1)
RollingVar(s, i, w, p) ==
    LET win == Window(s, i, w)
        k   == Len(win)
        sq  == SumSeq([j \in DOMAIN win |-> win[j] * win[j]])
        sm  == SumSeq(win)
    IN IF k < p \/ k < 2 THEN QNaN ELSE Div(k * sq - sm * sm, k * (k - 1))

\* a wrong rolling12_max: the min_periods of the 12-point mean
Rolling12MaxMin6(s, i) == RollingMax(s, i, Window12, MinPeriods12)

\* a wrong rolling12_max: the maximum of the whole history up to the point
Rolling12MaxExpanding(s, i) == RollingMax(s, i, Len(s), MinPeriodsMax)

Rolling12Max(s, i) == RollingMax(s, i, Window12, MinPeriodsMax)

Rolling3Avg(s, i) == RollingMean(s, i, Window3, MinPeriodsAvg3)

\* a wrong rolling12_avg: the min_periods of rolling3_avg
Rolling12AvgMin3(s, i) == RollingMean(s, i, Window12, MinPeriodsAvg3)

Rolling12Avg(s, i) == RollingMean(s, i, Window12, MinPeriods12)

\* a wrong std12: the min_periods of rolling12_max
Var12Min3(s, i) == RollingVar(s, i, Window12, MinPeriodsMax)

\* std12, squared
Var12(s, i) == RollingVar(s, i, Window12, MinPeriods12)

\* a wrong quotient: 0 for 0 / 0
FloatDivOrZero(a, b) ==
    IF a.k # "num" \/ b.k # "num" THEN QNaN
    ELSE IF a.n = 0 /\ b.n = 0 THEN Div(0, 1)
    ELSE Div(a.n * b.d, a.d * b.n)

\* the float a / b of two floats
FloatDiv(a, b) ==
    IF a.k # "num" \/ b.k # "num" THEN QNaN ELSE Div(a.n * b.d, a.d * b.n)

\* a wrong comparison: without the factor 0.5
LowMomentumNoFactor(r3, r12) ==
    r3.k = "num" /\ r12.k = "num" /\ r3.n * r12.d < r12.n * r3.d

\* (rolling3_avg < 0.5 * rolling12_avg).fillna(False)
LowMomentum(r3, r12) ==
    r3.k = "num" /\ r12.k = "num" /\ 2 * r3.n * r12.d < r12.n * r3.d

\* (saturation_index < 0.6).fillna(False)
SaturationRisk(si) ==
    si.k = "-inf" \/ (si.k = "num" /\ 5 * si.n < 3 * si.d)

\* a wrong column for the median: std12 squared at the latest point only
Var12Latest(s, i) == IF Var12(s, i).k = "num" THEN <<Var12(s, i)>> ELSE <<>>

RECURSIVE Var12Upto(_, _)
\* the defined values of std12 squared at the points 1..i of one district
Var12Upto(s, i) ==
    IF i = 0 THEN <<>>
    ELSE Var12Upto(s, i - 1)
           \o (IF Var12(s, i).k = "num" THEN <<Var12(s, i)>> ELSE <<>>)

RECURSIVE AllVar12(_, _, _)
\* dm['std12'] squared: the defined values over all points of the districts i..
AllVar12(sorted, dists, i) ==
    IF i > Len(dists) THEN <<>>
    ELSE LET s == SeriesOf(sorted, dists[i])
         IN Var12Upto(s, Len(s)) \o AllVar12(sorted, dists, i + 1)

\* sqrt(a) > 1.5 * (sqrt(b) + sqrt(c)) / 2 for variances a, b, c
ExceedsMidpoint(a, b, c) ==
    LET L  == Lcm(Lcm(a.d, b.d), c.d)
        A  == a.n * (L \div a.d)
        B  == b.n * (L \div b.d)
        C  == c.n * (L \div c.d)
        X  == 16 * A - 9 * B - 9 * C
        s  == ISqrt(B * C)
        r2 == B * C - s * s
        r  == X - 18 * s
    IN IF r2 = 0 THEN X > 18 * s
       ELSE IF r <= 0 THEN FALSE
       ELSE IF r >= 18 THEN TRUE
       ELSE 36 * s * r + r * r > 324 * r2

\* (std12 > 1.5 * dm['std12'].median()).fillna(False), on the squares;
\* srt holds the defined values of the column in ascending order
Volatile(v, srt) ==
    LET n == Len(srt)
    IN v.k = "num" /\ n > 0
         /\ ExceedsMidpoint(v, srt[(n + 1) \div 2], srt[(n \div 2) + 1])

\* a wrong snapshot: the row before the district's latest one
FlagRowBeforeLast(s, dist, srt) ==
    LET n   == Max2(1, Len(s) - 1)
        r3  == Rolling3Avg(s, n)
        si  == FloatDiv(r3, Rolling12Max(s, n))
    IN [district         |-> dist,
        saturation_index |-> si,
        low_momentum     |-> LowMomentum(r3, Rolling12Avg(s, n)),
        volatile         |-> Volatile(Var12(s, n), srt),
        saturation_risk  |-> SaturationRisk(si)]

\* one row of `last` with its flags
FlagRow(s, dist, srt) ==
    LET n   == Len(s)
        r3  == Rolling3Avg(s, n)
        si  == FloatDiv(r3, Rolling12Max(s, n))
    IN [district         |-> dist,
        saturation_index |-> si,
        low_momentum     |-> LowMomentum(r3, Rolling12Avg(s, n)),
        volatile         |-> Volatile(Var12(s, n), srt),
        saturation_risk  |-> SaturationRisk(si)]

RECURSIVE LastRows(_, _, _, _)
\* dm.groupby('district').tail(1) with the three flags, districts i.. in order
LastRows(sorted, dists, srt, i) ==
    IF i > Len(dists) THEN <<>>
    ELSE <<FlagRow(SeriesOf(sorted, dists[i]), dists[i], srt)>>
           \o LastRows(sorted, dists, srt, i + 1)

DistrictSaturationFlags(dm) ==
    LET sorted == SortByDistrictDate(dm)
        dists  == SortSet({dm[i].entity : i \in DOMAIN dm}, "district")
        srt    == SortSeqBy(AllVar12(sorted, dists, 1), "std12")
        last   == LastRows(sorted, dists, srt, 1)
    IN SortSeqBy(last, "saturation_index")

-----------------------------------------------------------------------------
(* build_figures and generate_recommendations: the trailing window          *)

\* pd.DateOffset(months=11)
LookbackMonths == 11

\* a wrong window: no cutoff, the whole history
RecentAll(m, dm) == dm

\* district_monthly[district_monthly['date'] >= last_12_cutoff], the cutoff taken
\* from the latest date of the state series; the whole table without a state series
RecentOf(m, dm) ==
    IF Len(m) > 0
    THEN SelectSeq(dm, LAMBDA e : e.date >= m[Len(m)].date - LookbackMonths)
    ELSE dm

\* dist_totals of the district disparity figure, whose bars are head(15) and tail(15)
FigureDistTotals(m, dm) == DistTotals(RecentOf(m, dm))

\* seasonal.sort_values('seasonal_index', ascending=False).head(2)['month']
TopMonths(seas) ==
    LET top == HeadN(SortSeqBy(seas, "seasonal_index, descending"), 2)
    IN [i \in DOMAIN top |-> top[i].month]

\* the values generate_recommendations puts into its five sentences
RecsOf(m, dm) ==
    LET fl      == DistrictSaturationFlags(dm)
        ci      == ChildInsightOf(ChildMomentumOf(m))
        bottom  == TailN(DistTotals(RecentOf(m, dm)), TopBottomN)
        vol     == SelectSeq(fl, LAMBDA f : f.volatile)
        sat     == SelectSeq(fl, LAMBDA f : f.saturation_risk)
    IN [computed       |-> TRUE,
        child_computed |-> ci.child_computed,
        last_share     |-> ci.last_share,
        bottom3        |-> [i \in DOMAIN bottom |-> bottom[i].district],
        top_months     |-> TopMonths(SeasonalityIndex(m)),
        volatile_names |-> LET h == HeadN(vol, TopBottomN)
                           IN [i \in DOMAIN h |-> h[i].district],
        sat_count      |-> Len(sat)]

-----------------------------------------------------------------------------
(* Inputs                                                                  *)

MaxRows == 3

Row(st, dt, di, pin, a, b, c) ==
    [state |-> st, date |-> dt, district |-> di, pincode |-> pin,
     age_0_5 |-> a, age_5_17 |-> b, age_18_greater |-> c]

\* the rows a file may hold: regular rows, and one row for each anomaly
RowDomain ==
    { Row("Maharashtra",   "01-01-2024", "Pune",     "411001", "1",  "1", "1"),
      Row("Maharashtra",   "01-01-2024", "Pune",     "411001", "2",  "0", "3"),
      Row(" maharashtra ", "01-02-2024", " Nagpur ", "411002", "0",  "1", "2"),
      Row("Maharashtra",   "01-02-2024", "Pune",     "411001", "",   "",  ""),
      Row("Maharashtra",   "01-03-2024", "Nagpur",   "411002", "x",  "0", ""),
      Row("Maharashtra",   "01-03-2024", "Pune",     "411002", "2",  "x", "1"),
      Row("Maharashtra",   "01-01-2025", "Nagpur",   "411001", "3",  "0", "0"),
      Row("Maharashtra",   "not-a-date", "Pune",     "411001", "1",  "1", "1"),
      Row("Maharashtra",   "not-a-date", "Pune",     "4110AB", "1",  "1", "1"),
      Row("Maharashtra",   "01-01-2024", "Pune",     "",       "1",  "1", "1"),
      Row("Maharashtra",   "01-01-2024", "",         "411001", "1",  "1", "1"),
      Row("Maharashtra",   "01-01-2024", " ",        "411001", "1",  "1", "1"),
      Row("Maharashtra",   "01-02-2024", "Nagpur",   "411002", "-1", "2", "0"),
      Row("Maharashtra",   "01-01-2024", "Nagpur",   "411002", "-1", "0", "0"),
      Row("Goa",           "01-01-2024", "Pune",     "411001", "3",  "3", "3"),
      Row("",              "01-01-2024", "Pune",     "411001", "1",  "1", "1") }

FilterValues == {"Maharashtra"}

NoInsights ==
    [computed |-> FALSE, total_change |-> QNaN, recent_growth |-> QNaN,
     top_d |-> <<>>, bottom_d |-> <<>>,
     child_computed |-> FALSE, last_share |-> QNaN]

NoRecs ==
    [computed |-> FALSE, child_computed |-> FALSE, last_share |-> QNaN,
     bottom3 |-> <<>>, top_months |-> <<>>, volatile_names |-> <<>>, sat_count |-> 0]

-----------------------------------------------------------------------------
(* The invocation: app.index / run_data_check.py                           *)

Init ==
    /\ pc = "start"
    /\ raw \in SeqsUpTo(RowDomain, MaxRows)
    /\ state_filter \in FilterValues
    /\ df = <<>>
    /\ monthly = <<>>
    /\ district_monthly = <<>>
    /\ pincode_monthly = <<>>
    /\ seasonal = <<>>
    /\ flags = <<>>
    /\ child = <<>>
    /\ insights = NoInsights
    /\ prev = <<>>
    /\ recs = NoRecs

\* load_and_prepare returns data
LoadAndPrepare ==
    /\ pc = "start"
    /\ StateColumnIsText(raw)
    /\ df' = CleanRows(raw, state_filter)
    /\ monthly' = MonthlyOf(df')
    /\ district_monthly' = DistrictMonthlyOf(df')
    /\ pincode_monthly' = PincodeMonthlyOf(df')
    /\ pc' = "loaded"
    /\ UNCHANGED <<raw, state_filter, seasonal, flags, child, insights, prev, recs>>

\* load_and_prepare raises: df['state'].str on a column without strings
LoadRaises ==
    /\ pc = "start"
    /\ ~StateColumnIsText(raw)
    /\ pc' = "error"
    /\ UNCHANGED <<raw, state_filter, df, monthly, district_monthly, pincode_monthly,
                   seasonal, flags, child, insights, prev, recs>>

CallSeasonalityIndex ==
    /\ pc = "loaded"
    /\ seasonal' = SeasonalityIndex(monthly)
    /\ pc' = "seasonal"
    /\ UNCHANGED <<raw, state_filter, df, monthly, district_monthly, pincode_monthly,
                   flags, child, insights, prev, recs>>

\* a wrong call: the rows of an earlier request's flag table are kept
CallDistrictSaturationFlagsKeepingOld ==
    /\ pc = "seasonal"
    /\ flags' = (IF prev = <<>> THEN <<>> ELSE prev[1][6])
                  \o DistrictSaturationFlags(district_monthly)
    /\ pc' = "flags"
    /\ UNCHANGED <<raw, state_filter, df, monthly, district_monthly, pincode_monthly,
                   seasonal, child, insights, prev, recs>>

CallDistrictSaturationFlags ==
    /\ pc = "seasonal"
    /\ flags' = DistrictSaturationFlags(district_monthly)
    /\ pc' = "flags"
    /\ UNCHANGED <<raw, state_filter, df, monthly, district_monthly, pincode_monthly,
                   seasonal, child, insights, prev, recs>>

CallChildMomentum ==
    /\ pc = "flags"
    /\ child' = ChildMomentumOf(monthly)
    /\ pc' = "child"
    /\ UNCHANGED <<raw, state_filter, df, monthly, district_monthly, pincode_monthly,
                   seasonal, flags, insights, prev, recs>>

GenerateInsights ==
    /\ pc = "child"
    /\ insights' = InsightsOf(monthly, district_monthly)
    /\ pc' = "insights"
    /\ UNCHANGED <<raw, state_filter, df, monthly, district_monthly, pincode_monthly,
                   seasonal, flags, child, prev, recs>>

GenerateRecommendations ==
    /\ pc = "insights"
    /\ recs' = RecsOf(monthly, district_monthly)
    /\ pc' = "done"
    /\ UNCHANGED <<raw, state_filter, df, monthly, district_monthly, pincode_monthly,
                   seasonal, flags, child, insights, prev>>

Outputs == <<df, monthly, district_monthly, pincode_monthly, seasonal, flags, child,
             insights, recs>>

\* the next request runs the pipeline again on the same file
NextRequest ==
    /\ pc = "done"
    /\ prev' = <<Outputs>>
    /\ pc' = "start"
    /\ df' = <<>>
    /\ monthly' = <<>>
    /\ district_monthly' = <<>>
    /\ pincode_monthly' = <<>>
    /\ seasonal' = <<>>
    /\ flags' = <<>>
    /\ child' = <<>>
    /\ insights' = NoInsights
    /\ recs' = NoRecs
    /\ UNCHANGED <<raw, state_filter>>

Next ==
    \/ LoadAndPrepare
    \/ LoadRaises
    \/ CallSeasonalityIndex
    \/ CallDistrictSaturationFlags
    \/ CallChildMomentum
    \/ GenerateInsights
    \/ GenerateRecommendations

Spec == Init /\ [][Next]_vars

\* the regular rows and one row of each kind that cleaning drops
RepeatRows ==
    {r \in RowDomain : r.state \in {"Maharashtra", "Goa"} /\ r.district # ""
                       /\ r.age_0_5 \in {"1", "2", "x", "3"}}

InitRepeat ==
    /\ pc = "start"
    /\ raw \in SeqsUpTo(RepeatRows, MaxRows)
    /\ state_filter \in FilterValues
    /\ df = <<>>
    /\ monthly = <<>>
    /\ district_monthly = <<>>
    /\ pincode_monthly = <<>>
    /\ seasonal = <<>>
    /\ flags = <<>>
    /\ child = <<>>
    /\ insights = NoInsights
    /\ prev = <<>>
    /\ recs = NoRecs

NextRepeat ==
    \/ LoadAndPrepare
    \/ CallSeasonalityIndex
    \/ CallDistrictSaturationFlags
    \/ CallChildMomentum
    \/ GenerateInsights
    \/ GenerateRecommendations
    \/ NextRequest

\* two requests in a row on one file
SpecRepeat == InitRepeat /\ [][NextRepeat]_vars

-----------------------------------------------------------------------------
(* load_and_prepare as a function of the state cells and of state_filter   *)

\* rows that differ in their state cell, told apart by their age_0_5 count
FilterRows ==
    { Row("Maharashtra",   "01-01-2024", "Pune", "411001", "1", "0", "0"),
      Row(" maharashtra ", "01-01-2024", "Pune", "411001", "2", "0", "0"),
      Row("Goa",           "01-01-2024", "Pune", "411001", "3", "0", "0"),
      Row("",              "01-01-2024", "Pune", "411001", "0", "0", "0") }

\* the values of the state_filter argument
FilterArgs == {"Maharashtra", "maharashtra", " Maharashtra", "Goa"}

InitFilter ==
    /\ pc = "start"
    /\ raw \in SeqsUpTo(FilterRows, MaxRows)
    /\ state_filter \in FilterArgs
    /\ df = <<>>
    /\ monthly = <<>>
    /\ district_monthly = <<>>
    /\ pincode_monthly = <<>>
    /\ seasonal = <<>>
    /\ flags = <<>>
    /\ child = <<>>
    /\ insights = NoInsights
    /\ prev = <<>>
    /\ recs = NoRecs

NextFilter ==
    \/ LoadAndPrepare
    \/ LoadRaises

SpecFilter == InitFilter /\ [][NextFilter]_vars

-----------------------------------------------------------------------------
(* _district_saturation_flags as a function of a district_monthly table    *)

MaxPoints == 7

MaxTotal == 1

\* n monthly points from January 2024 on, the first z of them 0 and the others 1
StepSeries(n, z) == [i \in 1..n |-> IF i > z THEN 1 ELSE 0]

\* the histories of the second district: none, or 6 or 7 points, flat or one step
PuneSeries ==
    {<<>>} \cup {StepSeries(n, z) : n \in MinPeriods12..(MinPeriods12 + 1),
                                    z \in {0, MinPeriods12 - 1, MinPeriods12}}

\* the district_monthly table of two districts with the given histories
TableOf(nagpur, pune) ==
    [i \in DOMAIN nagpur |-> [entity |-> "Nagpur", date |-> i - 1, total |-> nagpur[i]]]
      \o [i \in DOMAIN pune |-> [entity |-> "Pune", date |-> i - 1, total |-> pune[i]]]

InitFlags ==
    /\ pc = "seasonal"
    /\ raw = <<>>
    /\ state_filter \in FilterValues
    /\ df = <<>>
    /\ monthly = <<>>
    /\ \E a \in SeqsUpTo(0..MaxTotal, MaxPoints), b \in PuneSeries :
           district_monthly = TableOf(a, b)
    /\ pincode_monthly = <<>>
    /\ seasonal = <<>>
    /\ flags = <<>>
    /\ child = <<>>
    /\ insights = NoInsights
    /\ prev = <<>>
    /\ recs = NoRecs

NextFlags == CallDistrictSaturationFlags

SpecFlags == InitFlags /\ [][NextFlags]_vars

-----------------------------------------------------------------------------
(* _district_saturation_flags on histories longer than the 12-point window *)

LongPoints == 13

\* n monthly points at level b, except the points p and q at level h
TwoPeakSeries(n, p, q, b, h) == [i \in 1..n |-> IF i = p \/ i = q THEN h ELSE b]

\* the pairs (level, peak level): the totals of a series span at most 2
Levels == {<<0, 1>>, <<1, 0>>, <<0, 2>>, <<1, 2>>, <<0, 0 - 1>>, <<0 - 1, 0>>}

\* the histories of the first district: up to LongPoints points, two of them apart
LongSeries ==
    {<<>>} \cup
    {TwoPeakSeries(n, p, q, l[1], l[2]) :
        n \in 1..LongPoints, p \in 1..LongPoints, q \in 1..LongPoints, l \in Levels}

\* the histories of the second district: none, three equal points, or six points
\* that fall to zero
ShortSeries == {<<>>, <<1, 1, 1>>, <<2, 2, 2, 0, 0, 0>>}

InitWindow ==
    /\ pc = "seasonal"
    /\ raw = <<>>
    /\ state_filter \in FilterValues
    /\ df = <<>>
    /\ monthly = <<>>
    /\ \E a \in LongSeries, b \in ShortSeries : district_monthly = TableOf(a, b)
    /\ pincode_monthly = <<>>
    /\ seasonal = <<>>
    /\ flags = <<>>
    /\ child = <<>>
    /\ insights = NoInsights
    /\ prev = <<>>
    /\ recs = NoRecs

NextWindow == CallDistrictSaturationFlags

SpecWindow == InitWindow /\ [][NextWindow]_vars

-----------------------------------------------------------------------------
(* The invocation on files of four districts with old and recent records   *)

\* the districts of the file, and the counts of a district's records: one of
\* January 2024 and one of January 2025, each absent ("") or with that age_0_5
RankedDistricts == <<"Nagpur", "Nashik", "Pune", "Thane">>

OldCounts == {"", "3"}

RecentCounts == {"", "1", "2"}

DistrictRows(d, old, recent) ==
    (IF old = "" THEN <<>>
     ELSE <<Row("Maharashtra", "01-01-2024", d, "411001", old, "0", "0")>>)
      \o (IF recent = "" THEN <<>>
          ELSE <<Row("Maharashtra", "01-01-2025", d, "411001", recent, "0", "0")>>)

\* the file: the records of the four districts, and with edge a record of February
\* 2024, the month 11 months before January 2025
RankedFile(old, recent, edge) ==
    DistrictRows(RankedDistricts[1], old[1], recent[1])
      \o DistrictRows(RankedDistricts[2], old[2], recent[2])
      \o DistrictRows(RankedDistricts[3], old[3], recent[3])
      \o DistrictRows(RankedDistricts[4], old[4], recent[4])
      \o (IF edge THEN <<Row("Maharashtra", "01-02-2024", RankedDistricts[4], "411001",
                             "1", "0", "0")>>
          ELSE <<>>)

InitRecs ==
    /\ pc = "start"
    /\ \E old \in [DOMAIN RankedDistricts -> OldCounts],
          recent \in [DOMAIN RankedDistricts -> RecentCounts],
          edge \in BOOLEAN :
           raw = RankedFile(old, recent, edge)
    /\ state_filter \in FilterValues
    /\ df = <<>>
    /\ monthly = <<>>
    /\ district_monthly = <<>>
    /\ pincode_monthly = <<>>
    /\ seasonal = <<>>
    /\ flags = <<>>
    /\ child = <<>>
    /\ insights = NoInsights
    /\ prev = <<>>
    /\ recs = NoRecs

NextRecs ==
    \/ LoadAndPrepare
    \/ CallSeasonalityIndex
    \/ CallDistrictSaturationFlags
    \/ CallChildMomentum
    \/ GenerateInsights
    \/ GenerateRecommendations

SpecRecs == InitRecs /\ [][NextRecs]_vars

-----------------------------------------------------------------------------
(* _seasonality_index in float64, as a function of the state series        *)

MaxIndexTotal == 5

\* the dates of the state series: January and February 2024, January 2025
IndexDates == {<<0>>, <<0, 1>>, <<0, 12>>, <<0, 1, 12>>}

\* the state series with the given dates and totals
StateSeries(dates, totals) ==
    [i \in DOMAIN dates |->
        [date |-> dates[i], age_0_5 |-> totals[i], age_5_17 |-> 0, age_18_greater |-> 0,
         total |-> totals[i], month |-> MonthOfYear(dates[i])]]

InitFloat64 ==
    /\ pc = "loaded"
    /\ raw = <<>>
    /\ state_filter \in FilterValues
    /\ df = <<>>
    /\ \E dates \in IndexDates : \E totals \in [DOMAIN dates -> 0..MaxIndexTotal] :
           monthly = StateSeries(dates, totals)
    /\ district_monthly = <<>>
    /\ pincode_monthly = <<>>
    /\ seasonal = <<>>
    /\ flags = <<>>
    /\ child = <<>>
    /\ insights = NoInsights
    /\ prev = <<>>
    /\ recs = NoRecs

CallSeasonalityIndexFloat64 ==
    /\ pc = "loaded"
    /\ seasonal' = Float64SeasonalityIndex(monthly)
    /\ pc' = "seasonal"
    /\ UNCHANGED <<raw, state_filter, df, monthly, district_monthly, pincode_monthly,
                   flags, child, insights, prev, recs>>

NextFloat64 == CallSeasonalityIndexFloat64

SpecFloat64 == InitFloat64 /\ [][NextFloat64]_vars

-----------------------------------------------------------------------------
(* The consumers of the loaded data, called in any order                   *)

\* a missing copy: the child columns assigned to the caller's monthly
MonthlyWithChildColumns(m) ==
    [i \in DOMAIN m |->
        [date |-> m[i].date, age_0_5 |-> m[i].age_0_5, age_5_17 |-> m[i].age_5_17,
         age_18_greater |-> m[i].age_18_greater, total |-> m[i].total,
         month |-> m[i].month, child_total |-> ChildTotal(m[i]),
         child_share |-> ReplaceInf(Div(ChildTotal(m[i]), m[i].total))]]

\* m = monthly.copy(): the child columns go to the copy, and the caller's monthly
\* after _child_momentum is the frame it passed
MonthlyAfterChildMomentum(m) == m

\* dm = district_monthly.copy(), then sort_values and the rolling columns on dm: the
\* caller's district_monthly after _district_saturation_flags is the frame it passed
DistrictMonthlyAfterFlags(dm) == dm

HelperSeasonalityIndex ==
    /\ pc = "loaded"
    /\ seasonal' = SeasonalityIndex(monthly)
    /\ UNCHANGED <<pc, raw, state_filter, df, monthly, district_monthly, pincode_monthly,
                   flags, child, insights, prev, recs>>

HelperDistrictSaturationFlags ==
    /\ pc = "loaded"
    /\ flags' = DistrictSaturationFlags(district_monthly)
    /\ district_monthly' = DistrictMonthlyAfterFlags(district_monthly)
    /\ UNCHANGED <<pc, raw, state_filter, df, monthly, pincode_monthly,
                   seasonal, child, insights, prev, recs>>

HelperChildMomentum ==
    /\ pc = "loaded"
    /\ child' = ChildMomentumOf(monthly)
    /\ monthly' = MonthlyAfterChildMomentum(monthly)
    /\ UNCHANGED <<pc, raw, state_filter, df, district_monthly, pincode_monthly,
                   seasonal, flags, insights, prev, recs>>

\* build_figures: the three helpers on the frames of data
BuildFigures ==
    /\ pc = "loaded"
    /\ seasonal' = SeasonalityIndex(monthly)
    /\ flags' = DistrictSaturationFlags(district_monthly)
    /\ child' = ChildMomentumOf(monthly)
    /\ monthly' = MonthlyAfterChildMomentum(monthly)
    /\ district_monthly' = DistrictMonthlyAfterFlags(district_monthly)
    /\ UNCHANGED <<pc, raw, state_filter, df, pincode_monthly, insights, prev, recs>>

\* generate_insights, whose helpers are called on the frames of data
CallGenerateInsights ==
    /\ pc = "loaded"
    /\ insights' = InsightsOf(monthly, district_monthly)
    /\ monthly' = MonthlyAfterChildMomentum(monthly)
    /\ district_monthly' = DistrictMonthlyAfterFlags(district_monthly)
    /\ UNCHANGED <<pc, raw, state_filter, df, pincode_monthly, seasonal, flags, child,
                   prev, recs>>

\* generate_recommendations, whose helpers are called on the frames of data
CallGenerateRecommendations ==
    /\ pc = "loaded"
    /\ recs' = RecsOf(monthly, district_monthly)
    /\ monthly' = MonthlyAfterChildMomentum(monthly)
    /\ district_monthly' = DistrictMonthlyAfterFlags(district_monthly)
    /\ UNCHANGED <<pc, raw, state_filter, df, pincode_monthly, seasonal, flags, child,
                   insights, prev>>

NextCalls ==
    \/ LoadAndPrepare
    \/ HelperSeasonalityIndex
    \/ HelperDistrictSaturationFlags
    \/ HelperChildMomentum
    \/ BuildFigures
    \/ CallGenerateInsights
    \/ CallGenerateRecommendations

\* one load, then the consumers in any order and any number of times
SpecCalls == InitRepeat /\ [][NextCalls]_vars

-----------------------------------------------------------------------------
(* Concurrent requests to the index route                                  *)

\* the requests in flight; every variable holds one value per request, the locals
\* of its call of index()
Invocations == {1, 2}

\* the files a request may find: empty, one month, two districts a year apart, and
\* a file without any state value
ConcurrentFiles ==
    { <<>>,
      <<Row("Maharashtra", "01-01-2024", "Pune", "411001", "1", "1", "1")>>,
      <<Row("Maharashtra", "01-01-2024", "Pune", "411001", "2", "0", "3"),
        Row("Maharashtra", "01-01-2025", "Nagpur", "411001", "3", "0", "0")>>,
      <<Row("", "01-01-2024", "Pune", "411001", "1", "1", "1")>> }

InitConcurrent ==
    /\ pc = [i \in Invocations |-> "start"]
    /\ raw \in [Invocations -> ConcurrentFiles]
    /\ state_filter = [i \in Invocations |-> "Maharashtra"]
    /\ df = [i \in Invocations |-> <<>>]
    /\ monthly = [i \in Invocations |-> <<>>]
    /\ district_monthly = [i \in Invocations |-> <<>>]
    /\ pincode_monthly = [i \in Invocations |-> <<>>]
    /\ seasonal = [i \in Invocations |-> <<>>]
    /\ flags = [i \in Invocations |-> <<>>]
    /\ child = [i \in Invocations |-> <<>>]
    /\ insights = [i \in Invocations |-> NoInsights]
    /\ prev = <<>>
    /\ recs = [i \in Invocations |-> NoRecs]

\* a wrong index(): data kept in a module-level variable that all requests share
InvLoadAndPrepareShared ==
    \E i \in Invocations :
        /\ pc[i] = "start"
        /\ StateColumnIsText(raw[i])
        /\ df' = [j \in Invocations |-> CleanRows(raw[i], state_filter[i])]
        /\ monthly' = [j \in Invocations |-> MonthlyOf(df'[i])]
        /\ district_monthly' = [j \in Invocations |-> DistrictMonthlyOf(df'[i])]
        /\ pincode_monthly' = [j \in Invocations |-> PincodeMonthlyOf(df'[i])]
        /\ pc' = [pc EXCEPT ![i] = "loaded"]
        /\ UNCHANGED <<raw, state_filter, seasonal, flags, child, insights, prev, recs>>

\* data = load_and_prepare(DATASET_PATH, state_filter='Maharashtra') of one request
InvLoadAndPrepare ==
    \E i \in Invocations :
        /\ pc[i] = "start"
        /\ StateColumnIsText(raw[i])
        /\ df' = [df EXCEPT ![i] = CleanRows(raw[i], state_filter[i])]
        /\ monthly' = [monthly EXCEPT ![i] = MonthlyOf(df'[i])]
        /\ district_monthly' = [district_monthly EXCEPT ![i] = DistrictMonthlyOf(df'[i])]
        /\ pincode_monthly' = [pincode_monthly EXCEPT ![i] = PincodeMonthlyOf(df'[i])]
        /\ pc' = [pc EXCEPT ![i] = "loaded"]
        /\ UNCHANGED <<raw, state_filter, seasonal, flags, child, insights, prev, recs>>

InvLoadRaises ==
    \E i \in Invocations :
        /\ pc[i] = "start"
        /\ ~StateColumnIsText(raw[i])
        /\ pc' = [pc EXCEPT ![i] = "error"]
        /\ UNCHANGED <<raw, state_filter, df, monthly, district_monthly, pincode_monthly,
                       seasonal, flags, child, insights, prev, recs>>

InvSeasonalityIndex ==
    \E i \in Invocations :
        /\ pc[i] = "loaded"
        /\ seasonal' = [seasonal EXCEPT ![i] = SeasonalityIndex(monthly[i])]
        /\ pc' = [pc EXCEPT ![i] = "seasonal"]
        /\ UNCHANGED <<raw, state_filter, df, monthly, district_monthly, pincode_monthly,
                       flags, child, insights, prev, recs>>

InvDistrictSaturationFlags ==
    \E i \in Invocations :
        /\ pc[i] = "seasonal"
        /\ flags' = [flags EXCEPT ![i] = DistrictSaturationFlags(district_monthly[i])]
        /\ pc' = [pc EXCEPT ![i] = "flags"]
        /\ UNCHANGED <<raw, state_filter, df, monthly, district_monthly, pincode_monthly,
                       seasonal, child, insights, prev, recs>>

InvChildMomentum ==
    \E i \in Invocations :
        /\ pc[i] = "flags"
        /\ child' = [child EXCEPT ![i] = ChildMomentumOf(monthly[i])]
        /\ pc' = [pc EXCEPT ![i] = "child"]
        /\ UNCHANGED <<raw, state_filter, df, monthly, district_monthly, pincode_monthly,
                       seasonal, flags, insights, prev, recs>>

InvGenerateInsights ==
    \E i \in Invocations :
        /\ pc[i] = "child"
        /\ insights' = [insights EXCEPT ![i] = InsightsOf(monthly[i], district_monthly[i])]
        /\ pc' = [pc EXCEPT ![i] = "insights"]
        /\ UNCHANGED <<raw, state_filter, df, monthly, district_monthly, pincode_monthly,
                       seasonal, flags, child, prev, recs>>

InvGenerateRecommendations ==
    \E i \in Invocations :
        /\ pc[i] = "insights"
        /\ recs' = [recs EXCEPT ![i] = RecsOf(monthly[i], district_monthly[i])]
        /\ pc' = [pc EXCEPT ![i] = "done"]
        /\ UNCHANGED <<raw, state_filter, df, monthly, district_monthly, pincode_monthly,
                       seasonal, flags, child, insights, prev>>

NextConcurrent ==
    \/ InvLoadAndPrepare
    \/ InvLoadRaises
    \/ InvSeasonalityIndex
    \/ InvDistrictSaturationFlags
    \/ InvChildMomentum
    \/ InvGenerateInsights
    \/ InvGenerateRecommendations

SpecConcurrent == InitConcurrent /\ [][NextConcurrent]_vars

-----------------------------------------------------------------------------
(* Properties of load_and_prepare and of the indicators on its output      *)

Perms(n) == {f \in [1..n -> 1..n] : \A i, j \in 1..n : f[i] = f[j] => i = j}

Permuted(s, f) == [i \in DOMAIN s |-> s[f[i]]]

Loaded == pc \in {"loaded", "seasonal", "flags", "child", "insights", "done"}

\* C1: whatever the order of the cleaned rows, the state-monthly, district-monthly
\* and pincode-monthly aggregates have the same keys and the same sums per key.
C1_AggregatesIgnoreRowOrder ==
    Loaded =>
        \A f \in Perms(Len(df)) :
            /\ MonthlyOf(Permuted(df, f)) = monthly
            /\ DistrictMonthlyOf(Permuted(df, f)) = district_monthly
            /\ PincodeMonthlyOf(Permuted(df, f)) = pincode_monthly

\* two cleaned rows with the same date, district and pincode and different totals
C1_Witness ==
    /\ pc = "loaded"
    /\ \E i, j \in DOMAIN df :
          /\ i < j
          /\ df[i].date = df[j].date
          /\ df[i].district = df[j].district
          /\ df[i].pincode = df[j].pincode
          /\ df[i].total_enrolments # df[j].total_enrolments

\* C3: if every cleaned row has total >= 0, every state-level monthly total is >= 0.
C3_StateTotalsNonNegative ==
    (Loaded /\ \A i \in DOMAIN df : df[i].total_enrolments >= 0)
        => \A j \in DOMAIN monthly : monthly[j].total >= 0

\* a month summed from two rows, one of them with a negative age count
C3_Witness ==
    /\ pc = "loaded"
    /\ \A i \in DOMAIN df : df[i].total_enrolments >= 0
    /\ \E i, j \in DOMAIN df : i # j /\ df[i].date = df[j].date /\ df[i].age_0_5.v < 0

AgeNonNegative(a) == a.nan \/ a.v >= 0

AgesNonNegative ==
    \A i \in DOMAIN df :
        /\ AgeNonNegative(df[i].age_0_5)
        /\ AgeNonNegative(df[i].age_5_17)
        /\ AgeNonNegative(df[i].age_18_greater)

ChildComputed == pc \in {"child", "insights", "done"}

\* C4: with non-negative age counts, the child_share of a state-month is undefined
\* exactly when the month's total is zero, and otherwise lies in [0, 1]; it is never
\* infinite.
C4_ChildShareInUnitInterval ==
    (ChildComputed /\ AgesNonNegative) =>
        /\ Len(child) = Len(monthly)
        /\ \A i \in DOMAIN child :
              LET share == child[i].child_share
              IN /\ share.k \in {"nan", "num"}
                 /\ share.k = "nan" <=> monthly[i].total = 0
                 /\ share.k = "num" => (0 <= share.n /\ share.n <= share.d)

\* one month without any enrolment and one month with a share strictly inside (0, 1)
C4_Witness ==
    /\ pc = "child"
    /\ AgesNonNegative
    /\ \E i \in DOMAIN child : child[i].child_share.k = "nan"
    /\ \E i \in DOMAIN child :
          LET share == child[i].child_share
          IN share.k = "num" /\ 0 < share.n /\ share.n < share.d

SeasonalComputed == pc \in {"seasonal", "flags", "child", "insights", "done"}

TotalOfMonthly == SumSeq([i \in DOMAIN monthly |-> monthly[i].total])

\* the arithmetic mean of the seasonal_index column is exactly 1
IndexMeanIsOne ==
    LET idx == [i \in DOMAIN seasonal |-> seasonal[i].seasonal_index]
    IN /\ \A i \in DOMAIN idx : idx[i].k = "num"
       /\ QEq(QSum(idx), Div(Len(idx), 1))

\* how many entries of the state series fall in month-of-year mo
TimesObserved(mo) == Cardinality({i \in DOMAIN monthly : monthly[i].month = mo})

EveryMonthEquallyOften ==
    \A i, j \in DOMAIN monthly :
        TimesObserved(monthly[i].month) = TimesObserved(monthly[j].month)

ThreeConsecutiveMonths ==
    /\ pc = "done"
    /\ Len(monthly) = 3
    /\ monthly[2].date = monthly[1].date + 1
    /\ monthly[3].date = monthly[2].date + 1
    /\ monthly[1].total > 0

\* (x + y) / 2 in floating point: NaN if either is NaN, infinite if either is
FloatMean2(x, y) ==
    IF x.k = "nan" \/ y.k = "nan" THEN QNaN
    ELSE IF x.k = "num" /\ y.k = "num"
         THEN Div(x.n * y.d + y.n * x.d, 2 * x.d * y.d)
    ELSE IF x.k = "num" THEN y
    ELSE IF y.k = "num" \/ x.k = y.k THEN x
    ELSE QNaN

SameFloat(x, y) == IF x.k = "num" /\ y.k = "num" THEN QEq(x, y) ELSE x.k = y.k

\* C8 as stated: for three consecutive monthly totals [a, b, c] with a > 0,
\* total_change is (c - a) / a and the recent growth is the mean of the two changes
\* (b - a) / a and (c - b) / b.
C8_Original_TrendOfThreePoints ==
    ThreeConsecutiveMonths =>
        LET a == monthly[1].total
            b == monthly[2].total
            c == monthly[3].total
        IN /\ insights.computed
           /\ SameFloat(insights.total_change, Div(c - a, a))
           /\ SameFloat(insights.recent_growth,
                        FloatMean2(Div(b - a, a), Div(c - b, b)))

\* C8 amended: for three consecutive monthly totals [a, b, c] with a > 0,
\* total_change is (c - a) / a; the recent growth is the mean of the two changes
\* (b - a) / a and (c - b) / b when b is nonzero, it is infinite with the sign of c
\* when b = 0 and c is nonzero, and it is the single change (b - a) / a = -100%
\* when b = 0 and c = 0 (the undefined change 0/0 is skipped, not averaged).
C8_TrendOfThreePoints ==
    ThreeConsecutiveMonths =>
        LET a == monthly[1].total
            b == monthly[2].total
            c == monthly[3].total
        IN /\ insights.computed
           /\ SameFloat(insights.total_change, Div(c - a, a))
           /\ b # 0 => SameFloat(insights.recent_growth,
                                 Div((b - a) * b + (c - b) * a, 2 * a * b))
           /\ (b = 0 /\ c > 0) => insights.recent_growth.k = "inf"
           /\ (b = 0 /\ c < 0) => insights.recent_growth.k = "-inf"
           /\ (b = 0 /\ c = 0) => SameFloat(insights.recent_growth, Div(0 - 1, 1))

\* three consecutive months with three different positive totals
C8_Witness ==
    /\ ThreeConsecutiveMonths
    /\ monthly[2].total > 0
    /\ monthly[3].total > 0
    /\ monthly[1].total # monthly[2].total
    /\ monthly[2].total # monthly[3].total
    /\ insights.recent_growth.k = "num"

Without(s, i) == SubSeq(s, 1, i - 1) \o SubSeq(s, i + 1, Len(s))

\* a row of the state with district and pincode present and an unparsable date
DroppedForItsDate(r) ==
    /\ StateMatches(r, state_filter)
    /\ r.district # ""
    /\ r.pincode # ""
    /\ ToDatetime(r.date) = NaT

\* C9: a state-matching row with district and pincode present and an unparsable
\* date is dropped and changes nothing else: the cleaned rows and the three
\* aggregates are those of the same file without the row, and one row fewer is
\* retained than if its date were valid. (Files whose load raises without the row
\* are left aside.)
C9_BadDateRowOnlyDropped ==
    Loaded =>
        \A i \in DOMAIN raw :
            (DroppedForItsDate(raw[i]) /\ StateColumnIsText(Without(raw, i))) =>
                LET rest  == CleanRows(Without(raw, i), state_filter)
                    valid == CleanRows([raw EXCEPT ![i].date = "01-01-2024"],
                                       state_filter)
                IN /\ rest = df
                   /\ MonthlyOf(rest) = monthly
                   /\ DistrictMonthlyOf(rest) = district_monthly
                   /\ PincodeMonthlyOf(rest) = pincode_monthly
                   /\ Len(df) + 1 = Len(valid)

HasNumericAge(r) ==
    ~ToNumeric(r.age_0_5).nan \/ ~ToNumeric(r.age_5_17).nan
        \/ ~ToNumeric(r.age_18_greater).nan

\* the sum of the age cells of a raw row that hold a number
NumericSum(r) ==
    SumSeq([j \in 1..3 |->
              LET a == ToNumeric(<<r.age_0_5, r.age_5_17, r.age_18_greater>>[j])
              IN IF a.nan THEN 0 ELSE a.v])

\* the state-matching rows of the file with a valid date, a district and a pincode
KeyedRows ==
    SelectSeq(raw, LAMBDA r : /\ StateMatches(r, state_filter)
                              /\ ToDatetime(r.date) # NaT
                              /\ r.district # ""
                              /\ r.pincode # "")

\* C10: a state-matching row with valid date, district and pincode is retained
\* whatever its age fields; its total is the sum of its numeric age fields, 0 when
\* none is numeric, and such a row adds 0 to every state, district and pincode sum.
C10_KeyedRowsRetained ==
    Loaded =>
        LET keyed == KeyedRows
            Part(i, in) ==
                IF in /\ HasNumericAge(keyed[i]) THEN NumericSum(keyed[i]) ELSE 0
        IN /\ Len(df) = Len(keyed)
           /\ \A i \in DOMAIN df :
                 /\ df[i].total_enrolments = NumericSum(keyed[i])
                 /\ ~HasNumericAge(keyed[i]) => df[i].total_enrolments = 0
           /\ \A j \in DOMAIN monthly :
                 monthly[j].total =
                     SumSeq([i \in DOMAIN keyed |->
                                Part(i, df[i].date = monthly[j].date)])
           /\ \A j \in DOMAIN district_monthly :
                 district_monthly[j].total =
                     SumSeq([i \in DOMAIN keyed |->
                                Part(i, /\ df[i].date = district_monthly[j].date
                                        /\ df[i].district = district_monthly[j].entity)])
           /\ \A j \in DOMAIN pincode_monthly :
                 pincode_monthly[j].total =
                     SumSeq([i \in DOMAIN keyed |->
                                Part(i, /\ df[i].date = pincode_monthly[j].date
                                        /\ df[i].pincode = pincode_monthly[j].entity)])

\* a retained row without any numeric age field, in a month another row counts in
C10_Witness ==
    /\ pc = "loaded"
    /\ \E i, j \in DOMAIN df :
          /\ i # j
          /\ df[i].age_0_5.nan /\ df[i].age_5_17.nan /\ df[i].age_18_greater.nan
          /\ df[i].total_enrolments = 0
          /\ df[j].date = df[i].date
          /\ df[j].total_enrolments > 0

-----------------------------------------------------------------------------
(* Properties of _district_saturation_flags                                *)

FlagsComputed == pc \in {"flags", "child", "insights", "done"}

\* the number of monthly points of a district in district_monthly
PointsOf(dist) ==
    Cardinality({i \in DOMAIN district_monthly : district_monthly[i].entity = dist})

\* the totals of a district in date order
HistoryOf(dist) == SeriesOf(SortByDistrictDate(district_monthly), dist)

\* C5: a district with fewer than 6 monthly points is never flagged volatile,
\* whatever the other districts' data and the median of std12.
C5_FewPointsNeverVolatile ==
    FlagsComputed =>
        \A i \in DOMAIN flags :
            PointsOf(flags[i].district) < 6 => ~flags[i].volatile

\* a district with fewer than 6 points next to a district flagged volatile
C5_Witness ==
    /\ pc = "flags"
    /\ \E i, j \in DOMAIN flags :
          /\ PointsOf(flags[i].district) \in 2..5
          /\ ~flags[i].volatile
          /\ flags[j].volatile

\* C7 as stated, on its own example: for a district whose whole history is exactly
\* 3 monthly points of equal positive totals such as [100, 100, 100], rolling12_max
\* at the latest point is undefined, hence saturation_index is undefined and
\* saturation_risk is false.
C7_Original_ThreePointsUndefined ==
    FlagsComputed =>
        \A i \in DOMAIN flags :
            LET s == HistoryOf(flags[i].district)
            IN (Len(s) = 3 /\ s[1] > 0 /\ s[1] = s[2] /\ s[2] = s[3]) =>
                  /\ Rolling12Max(s, 3).k = "nan"
                  /\ flags[i].saturation_index.k = "nan"
                  /\ ~flags[i].saturation_risk

\* C7 amended: for a district whose whole history is exactly 3 monthly points of
\* non-negative totals, rolling12_max at the latest point is defined and is the
\* largest of the three totals; saturation_index is their mean over that maximum
\* (undefined only when all three are 0) and saturation_risk is true iff it is
\* below 0.6. For three equal positive totals such as [100, 100, 100] the
\* saturation_index is 1 and saturation_risk is false.
C7_ThreePointsDefined ==
    FlagsComputed =>
        \A i \in DOMAIN flags :
            PointsOf(flags[i].district) = 3 =>
                LET s  == HistoryOf(flags[i].district)
                    mx == Max2(s[1], Max2(s[2], s[3]))
                    si == flags[i].saturation_index
                IN /\ SameFloat(Rolling12Max(s, 3), Div(mx, 1))
                   /\ mx = 0 => si.k = "nan"
                   /\ mx > 0 => SameFloat(si, Div(s[1] + s[2] + s[3], 3 * mx))
                   /\ flags[i].saturation_risk
                        <=> (mx > 0 /\ 5 * (s[1] + s[2] + s[3]) < 9 * mx)
                   /\ (s[1] = s[2] /\ s[2] = s[3] /\ s[1] > 0)
                        => (SameFloat(si, Div(1, 1)) /\ ~flags[i].saturation_risk)

\* a district of exactly three equal positive totals, with saturation_index 1
C7_Witness ==
    /\ pc = "flags"
    /\ \E i \in DOMAIN flags :
          /\ PointsOf(flags[i].district) = 3
          /\ LET s == HistoryOf(flags[i].district)
             IN s[1] > 0 /\ s[1] = s[2] /\ s[2] = s[3]
          /\ SameFloat(flags[i].saturation_index, Div(1, 1))
          /\ ~flags[i].saturation_risk

-----------------------------------------------------------------------------
(* Two requests on the same file                                           *)

-----------------------------------------------------------------------------
(* Properties of the rows load_and_prepare retains                         *)

\* the state-matching rows of the file with a valid date and a district and a
\* pincode that are non-empty after trimming
TrimmedKeyedRows ==
    SelectSeq(raw, LAMBDA r : /\ StateMatches(r, state_filter)
                              /\ ToDatetime(r.date) # NaT
                              /\ Strip(r.district) # ""
                              /\ Strip(r.pincode) # "")

\* C11: every retained row has a valid date and a district and a pincode that are
\* non-empty after trimming; a row whose district or pincode is empty or only
\* whitespace is excluded, never kept with an empty grouping key.
C11_RetainedRowsHaveKeys ==
    Loaded =>
        /\ \A i \in DOMAIN df :
              df[i].date # NaT /\ df[i].district # "" /\ df[i].pincode # ""
        /\ Len(df) = Len(TrimmedKeyedRows)
        /\ \A j \in DOMAIN district_monthly : district_monthly[j].entity # ""
        /\ \A j \in DOMAIN pincode_monthly : pincode_monthly[j].entity # ""

\* C12: every retained row has total >= 0 and non-negative age counts, also when an
\* age field of the raw input holds a negative number.
C12_RetainedRowsNonNegative ==
    Loaded =>
        /\ \A i \in DOMAIN df : df[i].total_enrolments >= 0
        /\ AgesNonNegative

\* a state cell or a filter value with letter case and surrounding whitespace ignored
IgnoringCaseAndSpace(s) ==
    CASE s \in {"Maharashtra", "maharashtra", " Maharashtra", " maharashtra "}
               -> "maharashtra"
      [] s = "Goa" -> "goa"
      [] OTHER -> s

\* C13: a row is kept for the geographic scope iff its state field equals the filter
\* value when letter case and leading/trailing whitespace are ignored on both the
\* field and the filter value; rows with another state or a missing state are
\* excluded.
C13_KeptIffStateEqualsFilter ==
    Loaded =>
        LET kept == SelectSeq(raw, LAMBDA r :
                        /\ r.state # ""
                        /\ IgnoringCaseAndSpace(r.state)
                              = IgnoringCaseAndSpace(state_filter))
        IN /\ Len(df) = Len(kept)
           /\ \A i \in DOMAIN df : df[i].age_0_5 = ToNumeric(kept[i].age_0_5)

-----------------------------------------------------------------------------
(* Properties of _seasonality_index                                        *)

\* the sum of the state totals of the entries in month-of-year mo
MonthSum(mo) ==
    SumSeq([i \in DOMAIN monthly |->
               IF monthly[i].month = mo THEN monthly[i].total ELSE 0])

\* C14: _seasonality_index never divides by zero: the table has one entry per observed
\* month-of-year; when the overall mean of the state totals is nonzero the index of
\* month m is (mean of the totals of the entries in month m) / (overall mean); when
\* the overall mean is zero or there are no rows it is the raw per-month mean; every
\* index is a finite number.
C14_IndexIsGuardedRatio ==
    SeasonalComputed =>
        /\ {seasonal[i].month : i \in DOMAIN seasonal}
              = {monthly[i].month : i \in DOMAIN monthly}
        /\ \A i, j \in DOMAIN seasonal : seasonal[i].month = seasonal[j].month => i = j
        /\ \A i \in DOMAIN seasonal :
              LET mo  == seasonal[i].month
                  idx == seasonal[i].seasonal_index
              IN /\ idx.k = "num"
                 /\ TotalOfMonthly # 0 =>
                       QEq(idx, Div(MonthSum(mo) * Len(monthly),
                                    TimesObserved(mo) * TotalOfMonthly))
                 /\ TotalOfMonthly = 0 =>
                       QEq(idx, Div(MonthSum(mo), TimesObserved(mo)))

\* state totals that cancel to an overall mean of zero, with nonzero monthly means
C14_Witness ==
    /\ pc = "seasonal"
    /\ TotalOfMonthly = 0
    /\ \E i \in DOMAIN seasonal : seasonal[i].seasonal_index.n > 0
    /\ \E i \in DOMAIN seasonal : seasonal[i].seasonal_index.n < 0

-----------------------------------------------------------------------------
(* Properties of the indicators at a district's latest point               *)

Min2(a, b) == IF a <= b THEN a ELSE b

\* the last n totals of a history
LastTotals(s, n) == SubSeq(s, Len(s) - Min2(n, Len(s)) + 1, Len(s))

\* x < 0.6 * y for the float x / y of two integers, y possibly zero or negative
BelowSixTenths(x, y) ==
    \/ y > 0 /\ 5 * x < 3 * y
    \/ y < 0 /\ 5 * x > 3 * y
    \/ y = 0 /\ x < 0

\* C15: for every district with k points, rolling12_max at the latest point is
\* defined iff k >= 3 and is then the maximum of its last min(12, k) totals;
\* rolling3_avg is defined iff k >= 3 and is the mean of its last 3 totals;
\* saturation_index is their quotient, undefined when either is undefined;
\* saturation_risk is true iff saturation_index is defined and < 0.6.
C15_SaturationAtLatestPoint ==
    FlagsComputed =>
        \A i \in DOMAIN flags :
            LET s    == HistoryOf(flags[i].district)
                k    == Len(s)
                mx   == SeqMax(LastTotals(s, 12))
                sum3 == SumSeq(LastTotals(s, 3))
                si   == flags[i].saturation_index
            IN /\ Rolling12Max(s, k).k = "num" <=> k >= 3
               /\ Rolling3Avg(s, k).k = "num" <=> k >= 3
               /\ k < 3 => si.k = "nan" /\ ~flags[i].saturation_risk
               /\ k >= 3 =>
                     /\ QEq(Rolling12Max(s, k), Div(mx, 1))
                     /\ QEq(Rolling3Avg(s, k), Div(sum3, 3))
                     /\ SameFloat(si, Div(sum3, 3 * mx))
                     /\ flags[i].saturation_risk <=> BelowSixTenths(sum3, 3 * mx)

\* a district with more than 12 points whose largest total lies before its last 12
\* points: not at risk, as it would be with that total counted in the maximum
C15_Witness ==
    /\ pc = "flags"
    /\ \E i \in DOMAIN flags :
          LET s == HistoryOf(flags[i].district)
          IN /\ Len(s) > 12
             /\ s[1] > SeqMax(LastTotals(s, 12))
             /\ flags[i].saturation_index.k = "num"
             /\ ~flags[i].saturation_risk
             /\ BelowSixTenths(SumSeq(LastTotals(s, 3)), 3 * s[1])

\* C16: for every district with k points, rolling12_avg at the latest point is
\* defined iff k >= 6 and is then the mean of its last min(12, k) totals;
\* low_momentum is true iff rolling3_avg and rolling12_avg are both defined there and
\* rolling3_avg < 0.5 * rolling12_avg; it is false whenever either is undefined.
C16_LowMomentumAtLatestPoint ==
    FlagsComputed =>
        \A i \in DOMAIN flags :
            LET s     == HistoryOf(flags[i].district)
                k     == Len(s)
                n12   == Min2(12, k)
                sum12 == SumSeq(LastTotals(s, 12))
                sum3  == SumSeq(LastTotals(s, 3))
            IN /\ flags[i].low_momentum \in BOOLEAN
               /\ Rolling12Avg(s, k).k = "num" <=> k >= 6
               /\ k >= 6 => QEq(Rolling12Avg(s, k), Div(sum12, n12))
               /\ k < 6 => ~flags[i].low_momentum
               /\ k >= 6 => (flags[i].low_momentum <=> 2 * sum3 * n12 < 3 * sum12)

\* a district of six points flagged low_momentum, next to a district with more than
\* 12 points that is not flagged and would be with its whole history averaged
C16_Witness ==
    /\ pc = "flags"
    /\ \E i, j \in DOMAIN flags :
          LET s == HistoryOf(flags[i].district)
          IN /\ Len(s) > 12
             /\ ~flags[i].low_momentum
             /\ 2 * SumSeq(LastTotals(s, 3)) * Len(s) < 3 * SumSeq(s)
             /\ PointsOf(flags[j].district) = 6
             /\ flags[j].low_momentum

-----------------------------------------------------------------------------
(* Properties of the volatility flag and of the flag table                 *)

\* the position of row j of district_monthly in the history of its district
PositionOf(j) ==
    Cardinality({i \in DOMAIN district_monthly :
                    /\ district_monthly[i].entity = district_monthly[j].entity
                    /\ district_monthly[i].date <= district_monthly[j].date})

\* std12 squared at row j of district_monthly, given the table sorted
StdSquaredAt(sorted, j) ==
    Var12(SeriesOf(sorted, district_monthly[j].entity), PositionOf(j))

\* the rows of district_monthly that are the latest of their district
IsLatest(j) == PositionOf(j) = PointsOf(district_monthly[j].entity)

\* the defined std12 squared values at the given rows of district_monthly, ascending
StdSquaredOver(sorted, rows) ==
    LET all == [j \in DOMAIN district_monthly |->
                   IF j \in rows THEN StdSquaredAt(sorted, j) ELSE QNaN]
    IN SortSeqBy(SelectSeq(all, LAMBDA v : v.k = "num"), "std12")

\* v is defined and its root exceeds 1.5 times the median of the roots of vals
ExceedsMedian(v, vals) ==
    LET n == Len(vals)
    IN /\ v.k = "num"
       /\ n > 0
       /\ ExceedsMidpoint(v, vals[(n + 1) \div 2], vals[(n \div 2) + 1])

\* C17: a district is volatile iff its std12 at its latest point is defined and
\* exceeds 1.5 times the median of all defined std12 values of all (district, month)
\* points of the whole history; if no std12 value is defined, no district is volatile.
C17_VolatileAgainstMedianOfAllPoints ==
    FlagsComputed =>
        LET sorted == SortByDistrictDate(district_monthly)
            vals   == StdSquaredOver(sorted, DOMAIN district_monthly)
        IN \A i \in DOMAIN flags :
              LET s == SeriesOf(sorted, flags[i].district)
              IN /\ flags[i].volatile <=> ExceedsMedian(Var12(s, Len(s)), vals)
                 /\ vals = <<>> => ~flags[i].volatile

\* a district that is volatile against the median of all points and would not be
\* against the median of the districts' latest points, or the reverse
C17_Witness ==
    /\ pc = "flags"
    /\ LET sorted == SortByDistrictDate(district_monthly)
           latest == StdSquaredOver(sorted, {j \in DOMAIN district_monthly : IsLatest(j)})
       IN \E i \in DOMAIN flags :
             LET s == SeriesOf(sorted, flags[i].district)
             IN flags[i].volatile # ExceedsMedian(Var12(s, Len(s)), latest)

\* the latest date of a district in district_monthly
LatestDateOf(dist) ==
    CHOOSE d \in {district_monthly[j].date : j \in DOMAIN district_monthly} :
        /\ \E j \in DOMAIN district_monthly :
               district_monthly[j].entity = dist /\ district_monthly[j].date = d
        /\ \A j \in DOMAIN district_monthly :
               district_monthly[j].entity = dist => district_monthly[j].date <= d

\* the totals of a district dated on or before d, in date order
HistoryUpTo(sorted, dist, d) ==
    LET g == SelectSeq(sorted, LAMBDA e : e.entity = dist /\ e.date <= d)
    IN [i \in DOMAIN g |-> g[i].total] \o <<>>

\* C18: the flag table holds exactly one record for each district that occurs in
\* district_monthly and no other, and that record is the one computed at the
\* district's own most recent date, whatever the latest date of the other districts.
C18_OneRecordPerDistrictAtItsLatest ==
    FlagsComputed =>
        LET sorted == SortByDistrictDate(district_monthly)
            vals   == StdSquaredOver(sorted, DOMAIN district_monthly)
        IN /\ {flags[i].district : i \in DOMAIN flags}
                 = {district_monthly[j].entity : j \in DOMAIN district_monthly}
           /\ \A i, j \in DOMAIN flags : flags[i].district = flags[j].district => i = j
           /\ \A i \in DOMAIN flags :
                 LET s    == HistoryUpTo(sorted, flags[i].district,
                                         LatestDateOf(flags[i].district))
                     k    == Len(s)
                     sum3 == SumSeq(LastTotals(s, 3))
                     mx   == SeqMax(LastTotals(s, 12))
                 IN /\ k = PointsOf(flags[i].district)
                    /\ SameFloat(flags[i].saturation_index,
                                 IF k >= 3 THEN Div(sum3, 3 * mx) ELSE QNaN)
                    /\ flags[i].saturation_risk
                         <=> (k >= 3 /\ BelowSixTenths(sum3, 3 * mx))
                    /\ flags[i].low_momentum
                         <=> (k >= 6 /\ 2 * sum3 * Min2(12, k)
                                          < 3 * SumSeq(LastTotals(s, 12)))
                    /\ flags[i].volatile <=> ExceedsMedian(Var12(s, k), vals)

\* two districts whose latest dates differ, each with a defined saturation_index,
\* one of them at risk at its latest point and not at the point before
C18_Witness ==
    /\ pc = "flags"
    /\ \E i, j \in DOMAIN flags :
          /\ LatestDateOf(flags[i].district) < LatestDateOf(flags[j].district)
          /\ flags[i].saturation_index.k = "num"
          /\ flags[j].saturation_index.k = "num"
    /\ \E i \in DOMAIN flags :
          LET s == HistoryOf(flags[i].district)
          IN /\ Len(s) > 3
             /\ flags[i].saturation_risk
             /\ ~BelowSixTenths(SumSeq(SubSeq(s, Len(s) - 3, Len(s) - 1)),
                                3 * SeqMax(SubSeq(s, 1, Len(s) - 1)))

-----------------------------------------------------------------------------
(* Degenerate inputs                                                       *)

\* no row of the file survives cleaning
NoRowSurvives ==
    \A i \in DOMAIN raw : ~(StateMatches(raw[i], state_filter) /\ HasKeyFields(raw[i]))

\* C19: when no row survives cleaning, load_and_prepare and every later computation
\* complete without raising and yield the degenerate outputs: three empty aggregates,
\* an empty seasonality table, a flag table with no flag set, and the
\* insufficient-data insights.
C19_NoRowsDegenerateOutputs ==
    NoRowSurvives =>
        /\ pc # "error"
        /\ Loaded => /\ df = <<>>
                     /\ monthly = <<>>
                     /\ district_monthly = <<>>
                     /\ pincode_monthly = <<>>
        /\ SeasonalComputed => seasonal = <<>>
        /\ FlagsComputed =>
              \A i \in DOMAIN flags :
                  ~flags[i].saturation_risk /\ ~flags[i].low_momentum /\ ~flags[i].volatile
        /\ pc = "done" => ~insights.computed /\ ~insights.child_computed

\* C20: an insight whose series has zero or one element, or whose reported value is
\* undefined, is given its insufficient-data message: the total_trend and
\* child_momentum findings are built from numbers only when those numbers are
\* defined.
C20_UndefinedValuesGetMessage ==
    pc = "done" =>
        /\ Len(monthly) <= 1 => ~insights.computed
        /\ insights.computed =>
              insights.total_change.k = "num" /\ insights.recent_growth.k = "num"
        /\ insights.child_computed => insights.last_share.k = "num"

\* C21: load_and_prepare never raises on a readable file: whatever is missing or
\* unparsable in its rows, the state value of any or all rows included, is absorbed
\* by marking the field missing or dropping the row.
C21_CleaningNeverRaises == pc # "error"

-----------------------------------------------------------------------------
(* Properties of generate_insights and generate_recommendations            *)

\* the maximum observed state date
MaxStateDate ==
    CHOOSE d \in {df[i].date : i \in DOMAIN df} : \A j \in DOMAIN df : df[j].date <= d

\* dated on or after the maximum observed state date minus 11 months
InLookback(d) == d + 11 >= MaxStateDate

WindowDistricts == {df[i].district : i \in {j \in DOMAIN df : InLookback(df[j].date)}}

\* the total of a district over the retained rows of the lookback window
WindowTotal(dist) ==
    SumSeq([i \in DOMAIN df |->
               IF df[i].district = dist /\ InLookback(df[i].date)
               THEN df[i].total_enrolments ELSE 0])

\* the total of a district over all retained rows
HistoryTotal(dist) ==
    SumSeq([i \in DOMAIN df |->
               IF df[i].district = dist THEN df[i].total_enrolments ELSE 0])

\* C24: generate_recommendations names the bottom 3 districts by their total over
\* the points dated on or after the maximum state date minus 11 months (all the
\* districts of the window when there are at most 3), in descending order of that
\* total; the names are those obtained from the table without its older points.
C24_BottomThreeOfLookbackWindow ==
    (pc = "done" /\ df # <<>>) =>
        LET names == recs.bottom3
            inwin == SelectSeq(district_monthly, LAMBDA e : InLookback(e.date))
            alone == TailN(DistTotals(inwin), 3)
        IN /\ Len(names) = Min2(3, Cardinality(WindowDistricts))
           /\ Range(names) \subseteq WindowDistricts
           /\ \A i, j \in DOMAIN names : i < j =>
                 /\ names[i] # names[j]
                 /\ WindowTotal(names[i]) >= WindowTotal(names[j])
           /\ \A d \in WindowDistricts \ Range(names) : \A i \in DOMAIN names :
                 WindowTotal(d) >= WindowTotal(names[i])
           /\ names = [i \in DOMAIN alone |-> alone[i].district]

\* four districts in the window; a named one has older points that give it, over
\* its whole history, more than the district that is not named has in the window
C24_Witness ==
    /\ pc = "done"
    /\ df # <<>>
    /\ Cardinality(WindowDistricts) = 4
    /\ \E d \in Range(recs.bottom3), e \in WindowDistricts \ Range(recs.bottom3) :
          /\ HistoryTotal(d) > WindowTotal(d)
          /\ HistoryTotal(d) > HistoryTotal(e)
          /\ \E i \in DOMAIN df : df[i].district = d /\ df[i].date + 11 = MaxStateDate

\* the district names of a ranking
NamesOf(ranking) == [i \in DOMAIN ranking |-> ranking[i].district]

\* C25: the district_disparity insight ranks the districts by their totals over the
\* trailing 12-month window of the district disparity figure and of the
\* recommendations: its top and bottom districts are those of the figure's ranking,
\* and its bottom districts are the ones the recommendations name.
C25_InsightRanksTrailingWindow ==
    pc = "done" =>
        LET fig == FigureDistTotals(monthly, district_monthly)
        IN /\ NamesOf(insights.top_d) = NamesOf(HeadN(fig, 3))
           /\ NamesOf(insights.bottom_d) = NamesOf(TailN(fig, 3))
           /\ NamesOf(insights.bottom_d) = recs.bottom3

-----------------------------------------------------------------------------
(* Properties of the windows and of the flags taken together               *)

\* the totals of a district's records dated within the n calendar months that end
\* at the district's latest month
CalendarTotals(dist, n) ==
    LET g == SelectSeq(SortByDistrictDate(district_monthly),
                       LAMBDA e : e.entity = dist /\ e.date + n > LatestDateOf(dist))
    IN [i \in DOMAIN g |-> g[i].total] \o <<>>

\* the index over calendar windows, a month without record left out of the average
CalendarIndexOverRecords(dist) ==
    LET t3 == CalendarTotals(dist, 3)
    IN Div(SumSeq(t3), Len(t3) * SeqMax(CalendarTotals(dist, 12)))

\* the index over calendar windows, a month without record counted as 0
CalendarIndexOverMonths(dist) ==
    LET t12 == CalendarTotals(dist, 12)
        mx  == IF Len(t12) < 12 THEN Max2(SeqMax(t12), 0) ELSE SeqMax(t12)
    IN Div(SumSeq(CalendarTotals(dist, 3)), 3 * mx)

\* C26: the saturation index of a district with at least 3 records is the average
\* of its enrolments over the 3 calendar months that end at its latest month divided
\* by its maximum over the 12 calendar months that end there, also when the district
\* has no record in some of those months (left out, or counted as 0).
C26_WindowsCoverCalendarMonths ==
    FlagsComputed =>
        \A i \in DOMAIN flags :
            PointsOf(flags[i].district) >= 3 =>
                \/ SameFloat(flags[i].saturation_index,
                             CalendarIndexOverRecords(flags[i].district))
                \/ SameFloat(flags[i].saturation_index,
                             CalendarIndexOverMonths(flags[i].district))

\* every monthly total of the district is non-negative
NonNegativeTotals(dist) ==
    \A j \in DOMAIN district_monthly :
        district_monthly[j].entity = dist => district_monthly[j].total >= 0

\* C27: given non-negative monthly totals, every district flagged low_momentum is
\* also flagged saturation_risk.
C27_LowMomentumImpliesSaturationRisk ==
    FlagsComputed =>
        \A i \in DOMAIN flags :
            (NonNegativeTotals(flags[i].district) /\ flags[i].low_momentum)
                => flags[i].saturation_risk

\* a district of non-negative totals flagged low_momentum, with a positive index
C27_Witness ==
    /\ pc = "flags"
    /\ \E i \in DOMAIN flags :
          /\ NonNegativeTotals(flags[i].district)
          /\ flags[i].low_momentum
          /\ flags[i].saturation_risk
          /\ flags[i].saturation_index.k = "num"
          /\ flags[i].saturation_index.n > 0

\* the totals of the trailing 12-point window of a district are all zero
TrailingWindowAllZero(dist) ==
    \A x \in Range(LastTotals(HistoryOf(dist), 12)) : x = 0

\* C28: given non-negative monthly totals, the saturation_index of a district is
\* undefined exactly when the district has fewer than 3 points or only zeros in its
\* trailing 12-point window, and otherwise lies in [0, 1]; a district whose trailing
\* window holds only zeros is flagged neither saturation_risk nor low_momentum.
C28_IndexUndefinedOrInUnitInterval ==
    FlagsComputed =>
        \A i \in DOMAIN flags :
            NonNegativeTotals(flags[i].district) =>
                LET d  == flags[i].district
                    si == flags[i].saturation_index
                IN /\ (PointsOf(d) < 3 \/ TrailingWindowAllZero(d)) <=> si.k = "nan"
                   /\ si.k # "nan" => si.k = "num" /\ 0 <= si.n /\ si.n <= si.d
                   /\ TrailingWindowAllZero(d) =>
                         ~flags[i].saturation_risk /\ ~flags[i].low_momentum

\* a district of 13 points whose first total is positive and whose trailing 12
\* points are all zero: index undefined, no flag
C28_Witness ==
    /\ pc = "flags"
    /\ \E i \in DOMAIN flags :
          /\ PointsOf(flags[i].district) = 13
          /\ HistoryOf(flags[i].district)[1] > 0
          /\ TrailingWindowAllZero(flags[i].district)
          /\ flags[i].saturation_index.k = "nan"
          /\ ~flags[i].saturation_risk /\ ~flags[i].low_momentum

-----------------------------------------------------------------------------
(* Properties of the aggregates and of the seasonality index               *)

\* the sum of the totals of an entity-level aggregate at one date
TotalAt(table, d) ==
    SumSeq([j \in DOMAIN table |-> IF table[j].date = d THEN table[j].total ELSE 0])

\* C29: for every date the state-monthly total equals the sum of the district-monthly
\* totals of that date, the sum of the pincode-monthly totals of that date and the
\* sum of the month's three age columns; each date, (district, date) and
\* (pincode, date) key occurs exactly once, and exactly the keys of retained rows occur.
C29_AggregatesMutuallyConsistent ==
    Loaded =>
        /\ \A j \in DOMAIN monthly :
              /\ monthly[j].total = TotalAt(district_monthly, monthly[j].date)
              /\ monthly[j].total = TotalAt(pincode_monthly, monthly[j].date)
              /\ monthly[j].total = monthly[j].age_0_5 + monthly[j].age_5_17
                                        + monthly[j].age_18_greater
        /\ \A i, j \in DOMAIN monthly : monthly[i].date = monthly[j].date => i = j
        /\ \A i, j \in DOMAIN district_monthly :
              (/\ district_monthly[i].entity = district_monthly[j].entity
               /\ district_monthly[i].date = district_monthly[j].date) => i = j
        /\ \A i, j \in DOMAIN pincode_monthly :
              (/\ pincode_monthly[i].entity = pincode_monthly[j].entity
               /\ pincode_monthly[i].date = pincode_monthly[j].date) => i = j
        /\ {monthly[j].date : j \in DOMAIN monthly} = {df[i].date : i \in DOMAIN df}
        /\ {<<district_monthly[j].entity, district_monthly[j].date>> :
                j \in DOMAIN district_monthly}
              = {<<df[i].district, df[i].date>> : i \in DOMAIN df}
        /\ {<<pincode_monthly[j].entity, pincode_monthly[j].date>> :
                j \in DOMAIN pincode_monthly}
              = {<<df[i].pincode, df[i].date>> : i \in DOMAIN df}

\* a month with two districts and two pincodes, one of its rows without a numeric
\* age value, and a positive state total
C29_Witness ==
    /\ pc = "loaded"
    /\ \E j \in DOMAIN monthly :
          /\ monthly[j].total > 0
          /\ Cardinality({i \in DOMAIN district_monthly :
                              district_monthly[i].date = monthly[j].date}) = 2
          /\ Cardinality({i \in DOMAIN pincode_monthly :
                              pincode_monthly[i].date = monthly[j].date}) = 2
          /\ \E i \in DOMAIN df :
                df[i].date = monthly[j].date /\ df[i].age_0_5.nan

\* the float64 c * x for an integer 0 <= c < 8
Float64TimesInt(c, x) == RoundToFloat64(BigTimes(x.m, c), x.e)

\* the float64 x + y of two non-negative float64: two guard bits, the lower one sticky
Float64Add(x, y) ==
    IF x = Float64Zero THEN y
    ELSE IF y = Float64Zero THEN x
    ELSE LET hi == IF x.e >= y.e THEN x ELSE y
             lo == IF x.e >= y.e THEN y ELSE x
             d  == hi.e - lo.e
             y4 == BigTimes(lo.m, 4)
             ys == BigShr(y4, d)
             st == IF BigShl(ys, d) # y4 /\ ys[3] % 2 = 0 THEN BigAdd(ys, BigOf(1)) ELSE ys
         IN RoundToFloat64(BigAdd(BigTimes(hi.m, 4), st), hi.e - 2)

\* count(m) * index(m) for the rows of the seasonality table, in float64
WeightedTerms ==
    [i \in DOMAIN seasonal |->
        Float64TimesInt(TimesObserved(seasonal[i].month), seasonal[i].seasonal_index)]

RECURSIVE Float64SumUpTo(_, _)
\* the terms 1..i added one after the other in float64
Float64SumUpTo(terms, i) ==
    IF i = 0 THEN Float64Zero ELSE Float64Add(Float64SumUpTo(terms, i - 1), terms[i])

RECURSIVE ExactWeightedSumUpTo(_)
\* the sum over the rows 1..i of count(m) * index(m), exactly, in units of 2^(-60)
ExactWeightedSumUpTo(i) ==
    IF i = 0 THEN BigOf(0)
    ELSE BigAdd(ExactWeightedSumUpTo(i - 1),
                BigShl(BigTimes(seasonal[i].seasonal_index.m,
                                TimesObserved(seasonal[i].month)),
                       seasonal[i].seasonal_index.e + 60))

\* the number of state-month entries in units of 2^(-60)
EntriesInUnits == BigShl(BigOf(Len(monthly)), 60)

\* |x - y|
BigDistance(x, y) == IF BigLess(x, y) THEN BigSub(y, x) ELSE BigSub(x, y)

\* the indices are computed and the overall mean of the state totals is nonzero
IndexOfNonzeroMean == pc = "seasonal" /\ TotalOfMonthly # 0

\* C30 as stated: the indices weighted by the number of entries of their
\* month-of-year sum to exactly the number of state-month entries, be the sum taken
\* exactly or in float64.
C30_Original_WeightedIndicesSumToCount ==
    IndexOfNonzeroMean =>
        \/ ExactWeightedSumUpTo(Len(seasonal)) = EntriesInUnits
        \/ Float64SumUpTo(WeightedTerms, Len(seasonal)) = Float64OfInt(Len(monthly))

\* C30, amended: for non-negative totals with a nonzero overall mean the weighted sum
\* of the float64 indices differs from the number of state-month entries by at most
\* the relative rounding error 2^(-51).
C30_WeightedIndicesSumToCountUpToRounding ==
    IndexOfNonzeroMean =>
        ~BigLess(BigShr(EntriesInUnits, 51),
                 BigDistance(ExactWeightedSumUpTo(Len(seasonal)), EntriesInUnits))

\* January observed twice and February once, and a weighted sum that is not the
\* number of entries, neither exactly nor in float64
C30_Witness ==
    /\ IndexOfNonzeroMean
    /\ TimesObserved(1) = 2 /\ TimesObserved(2) = 1
    /\ ExactWeightedSumUpTo(Len(seasonal)) # EntriesInUnits
    /\ Float64SumUpTo(WeightedTerms, Len(seasonal)) # Float64OfInt(Len(monthly))

-----------------------------------------------------------------------------
(* Properties of the invocation as a whole                                 *)

\* the data load_and_prepare returns for a file
DataOf(rows, filter) ==
    LET kept == CleanRows(rows, filter)
    IN [df |-> kept, monthly |-> MonthlyOf(kept),
        district_monthly |-> DistrictMonthlyOf(kept),
        pincode_monthly |-> PincodeMonthlyOf(kept)]

FreshData == DataOf(raw, state_filter)

AfterStep(step) ==
    CASE step = "loaded"   -> {"loaded", "seasonal", "flags", "child", "insights", "done"}
      [] step = "seasonal" -> {"seasonal", "flags", "child", "insights", "done"}
      [] step = "flags"    -> {"flags", "child", "insights", "done"}
      [] step = "child"    -> {"child", "insights", "done"}
      [] step = "insights" -> {"insights", "done"}
      [] step = "done"     -> {"done"}

====
